---- MODULE Spec2Model ----
(***************************************************************************)
(* State-machine model of the FlavourCraft backend (src/backend).          *)
(*                                                                         *)
(* The database collections `users` and `generated_recipes` are sets of    *)
(* documents.  Every HTTP request is served by a process p \in Procs; a    *)
(* handler is cut into one action per awaited database or AI call, which   *)
(* are the only points where the cooperative scheduler can interleave two  *)
(* requests.  pc[p] is the handler's position, loc[p] its local variables, *)
(* resp[p] the response it returned.                                       *)
(***************************************************************************)
EXTENDS Integers, Sequences, FiniteSets, TLC

VARIABLES
    users,      \* collection db.users
    recipes,    \* collection db.generated_recipes
    nextOid,    \* next ObjectId the database hands out
    now,        \* wall clock, in minutes
    tokens,     \* bearer tokens issued so far (held by clients)
    client,     \* client[p]: the account client p registered last
    settings,   \* configuration read from the environment
    monitor,    \* the process-wide ModelMonitor instance
    prometheus, \* gauges and counters of the metrics registry used by the monitor
    mlflow_manager,  \* the process-wide MLflowManager instance
    tracking_server, \* the experiment-tracking server: reachable or not, what it received
    db_manager,      \* the process-wide DatabaseManager instance
    pc,         \* pc[p]: position of the request p is serving
    loc,        \* loc[p]: local variables of that request
    resp        \* resp[p]: response of the request p served last

\* the service singletons outside the monitor
services == <<mlflow_manager, tracking_server, db_manager>>

vars == <<users, recipes, nextOid, now, tokens, client, settings, monitor, prometheus,
          services, pc, loc, resp>>

-----------------------------------------------------------------------------
(* Bounds of the model *)

MaxOid == 2
MaxTicks == 2

\* the two requests that may be in flight together
Procs == {"p1", "p2"}

-----------------------------------------------------------------------------
(* Values *)

None == [t |-> "none"]

\* the environment: both AI tiers configured and the CLIP model loadable
DefaultSettings == [OPENAI_API_KEY |-> TRUE, USE_LOCAL_MODELS |-> TRUE,
                    CLIP_AVAILABLE |-> TRUE, PROMETHEUS_ENABLED |-> TRUE,
                    ENABLE_DRIFT_DETECTION |-> TRUE]
NoneStr == "<None>"
NoTime == -1

\* bson.ObjectId(s): the database identifier a well-formed id string denotes
ObjectId(s) == [t |-> "oid", v |-> s.v]
\* str(oid): the string form of an ObjectId; never equal to the ObjectId itself
Str(oid) == [t |-> "str", v |-> oid.v]
\* ObjectId.is_valid: a malformed id string is modelled with a negative v
IsValidOid(s) == s.t = "str" /\ s.v >= 0

Usernames == {"alice", "bob"}
Emails == {"a@x.io", "b@x.io"}

pwStrongA == <<"A", "b", "c", "d", "e", "f", "1", "!">>
pwStrongB == <<"Z", "y", "x", "w", "v", "u", "2", "?">>
pwNoSpecial == <<"A", "b", "c", "d", "e", "f", "g", "1">>
pwShort == <<"A", "b", "1", "!">>
Passwords == {pwStrongA, pwStrongB, pwNoSpecial, pwShort}

UpperChars == {"A", "Z"}
LowerChars == {"b", "c", "d", "e", "f", "g", "u", "v", "w", "x", "y"}
DigitChars == {"1", "2"}
SpecialChars == {"!", "?"}

HasChar(pw, class) == \E i \in 1..Len(pw) : pw[i] \in class

-----------------------------------------------------------------------------
(* utils/validators.py, utils/hashing.py *)

MinPasswordLen == 8

validate_password_strength(password) ==
    IF Len(password) < MinPasswordLen
    THEN [ok |-> FALSE, msg |-> "Password must be at least 8 characters long"]
    ELSE IF ~HasChar(password, UpperChars)
    THEN [ok |-> FALSE, msg |-> "Password must contain at least one uppercase letter"]
    ELSE IF ~HasChar(password, LowerChars)
    THEN [ok |-> FALSE, msg |-> "Password must contain at least one lowercase letter"]
    ELSE IF ~HasChar(password, DigitChars)
    THEN [ok |-> FALSE, msg |-> "Password must contain at least one digit"]
    ELSE IF ~HasChar(password, SpecialChars)
    THEN [ok |-> FALSE, msg |-> "Password must contain at least one special character"]
    ELSE [ok |-> TRUE, msg |-> ""]

\* bcrypt: a one-way hash; only verify_password relates it to the plaintext
hash_password(password) == [alg |-> "bcrypt", of |-> password]
verify_password(plain_password, hashed_password) ==
    hashed_password.alg = "bcrypt" /\ hashed_password.of = plain_password

ACCESS_TOKEN_EXPIRE_MINUTES == 720
REFRESH_TOKEN_EXPIRE_DAYS == 7
RefreshTokenExpireMinutes == REFRESH_TOKEN_EXPIRE_DAYS * 24 * 60

\* JWT_SECRET_KEY is set in the deployment (token creation raises without it)
jwt_secret_key == "secret"

Sign(key) == IF key = "" THEN "unsigned" ELSE key

\* create_access_token stamping the refresh type
create_access_token_refresh_type(data) ==
    [sub |-> data.sub, user_id |-> data.user_id,
     exp |-> now + ACCESS_TOKEN_EXPIRE_MINUTES, type |-> "refresh",
     sig |-> Sign(jwt_secret_key)]

create_access_token(data) ==
    [sub |-> data.sub, user_id |-> data.user_id,
     exp |-> now + ACCESS_TOKEN_EXPIRE_MINUTES, type |-> "access",
     sig |-> Sign(jwt_secret_key)]

create_refresh_token(data) ==
    [sub |-> data.sub, user_id |-> data.user_id,
     exp |-> now + RefreshTokenExpireMinutes, type |-> "refresh",
     sig |-> Sign(jwt_secret_key)]

\* jwt.decode: signature and expiry are verified; the payload or None
decode_token(token) ==
    IF jwt_secret_key = "" THEN None
    ELSE IF token.sig # Sign(jwt_secret_key) THEN None
    ELSE IF token.exp < now THEN None
    ELSE [t |-> "payload", sub |-> token.sub, user_id |-> token.user_id,
          exp |-> token.exp, type |-> token.type]

verify_token_type(token, expected_type) ==
    LET payload == decode_token(token)
    IN  IF payload = None THEN FALSE ELSE payload.type = expected_type

\* a token a client can present: one it was issued, or one with a broken signature
Tampered(token) == [token EXCEPT !.sig = "forged"]
Presentable == tokens \cup {Tampered(tk) : tk \in tokens}

-----------------------------------------------------------------------------
(* services/storage_service.py: the unique indexes of db.users *)

\* create_indexes without unique=True
UniqueIndexes_plain == {}

UniqueIndexes == {"email", "username"}

\* would writing `doc` (replacing the document with the same _id, if any)
\* raise DuplicateKeyError?
DuplicateKey(doc) ==
    \E u \in users :
        /\ u._id # doc._id
        /\ \/ "email" \in UniqueIndexes /\ u.email = doc.email
           \/ "username" \in UniqueIndexes /\ u.username = doc.username

-----------------------------------------------------------------------------
(* services/auth_service.py *)

\* find_one({"_id": ObjectId(user_id)}); a malformed id gives None
get_user_by_id(user_id) ==
    IF ~IsValidOid(user_id) THEN None
    ELSE IF \E u \in users : u._id = ObjectId(user_id)
         THEN CHOOSE u \in users : u._id = ObjectId(user_id)
         ELSE None

UserResponse(user) ==
    [t |-> "user", id |-> Str(user._id), username |-> user.username,
     email |-> user.email, last_login |-> user.last_login,
     preferences |-> user.preferences]

NewUserDoc(oid, user_data) ==
    [_id |-> [t |-> "oid", v |-> oid],
     username |-> user_data.username,
     email |-> user_data.email,
     password_hash |-> hash_password(user_data.password),
     last_login |-> NoTime,
     preferences |-> "beginner"]

Idle == [t |-> "idle"]

Reply(p, r) ==
    /\ pc' = [pc EXCEPT ![p] = "done"]
    /\ loc' = [loc EXCEPT ![p] = Idle]
    /\ resp' = [resp EXCEPT ![p] = r]

Goto(p, label, l) ==
    /\ pc' = [pc EXCEPT ![p] = label]
    /\ loc' = [loc EXCEPT ![p] = l]
    /\ UNCHANGED resp

\* a variant that reports every duplicate as an email duplicate
DuplicateDetail_email_only(existing_user, user_data) == "Email already registered"

\* the reason reported for the document found by the $or query (lines 58-68)
DuplicateDetail(existing_user, user_data) ==
    IF existing_user.email = user_data.email
    THEN "Email already registered"
    ELSE "Username already taken"

\* POST /auth/register up to the existence check (register_user lines 43-68)
RegisterCheck(p, payloads) ==
    \E user_data \in payloads :
        /\ pc[p] = "idle"
        /\ UNCHANGED <<users, recipes, nextOid, now, tokens, client, settings, monitor, prometheus, services>>
        /\ LET strength == validate_password_strength(user_data.password)
               existing == {u \in users : u.email = user_data.email
                                          \/ u.username = user_data.username}
           IN  IF Len(user_data.password) < MinPasswordLen
               THEN Reply(p, [op |-> "register", status |-> 422, detail |-> "validation",
                              user_data |-> user_data])
               ELSE IF ~strength.ok
               THEN Reply(p, [op |-> "register", status |-> 400, detail |-> strength.msg,
                              user_data |-> user_data])
               ELSE IF existing # {}
               THEN \E existing_user \in existing :
                        Reply(p, [op |-> "register", status |-> 400,
                                  detail |-> DuplicateDetail(existing_user, user_data),
                                  user_data |-> user_data])
               ELSE Goto(p, "reg_insert", [t |-> "register", user_data |-> user_data])

\* insert_one(user_dict) (register_user line 88); DuplicateKeyError becomes a 500
RegisterInsert(p) ==
    /\ pc[p] = "reg_insert"
    /\ nextOid <= MaxOid
    /\ UNCHANGED <<recipes, now, tokens, client, settings, monitor, prometheus, services>>
    /\ LET doc == NewUserDoc(nextOid, loc[p].user_data)
       IN  IF DuplicateKey(doc)
           THEN /\ UNCHANGED <<users, nextOid>>
                /\ Reply(p, [op |-> "register", status |-> 500,
                             detail |-> "An error occurred during registration"])
           ELSE /\ users' = users \cup {doc}
                /\ nextOid' = nextOid + 1
                /\ Goto(p, "reg_reread",
                        [t |-> "register", user_data |-> loc[p].user_data,
                         inserted_id |-> doc._id])

\* find_one({"_id": inserted_id}) and the response (register_user lines 91-103)
RegisterReread(p) ==
    /\ pc[p] = "reg_reread"
    /\ UNCHANGED <<users, recipes, nextOid, now, tokens, settings, monitor, prometheus, services>>
    /\ LET found == {u \in users : u._id = loc[p].inserted_id}
       IN  IF found = {}
           THEN /\ UNCHANGED client
                /\ Reply(p, [op |-> "register", status |-> 500,
                             detail |-> "An error occurred during registration"])
           ELSE \E created_user \in found :
                    /\ client' = [client EXCEPT ![p] =
                                    [t |-> "account",
                                     id |-> Str(created_user._id),
                                     email |-> loc[p].user_data.email,
                                     password |-> loc[p].user_data.password]]
                    /\ Reply(p, [op |-> "register", status |-> 201,
                                 detail |-> "", body |-> UserResponse(created_user)])

\* POST /auth/login: authenticate_user (lines 116-124, 140-147)
LoginAuthenticate(p, passwords) ==
    \E email \in Emails, password \in passwords :
        /\ pc[p] = "idle"
        /\ UNCHANGED <<users, recipes, nextOid, now, tokens, client, settings, monitor, prometheus, services>>
        /\ LET found == {u \in users : u.email = email}
           IN  IF found = {}
               THEN Reply(p, [op |-> "login", status |-> 401,
                              detail |-> "Incorrect email or password",
                              email |-> email, password |-> password])
               ELSE \E user \in found :
                        IF ~verify_password(password, user.password_hash)
                        THEN Reply(p, [op |-> "login", status |-> 401,
                                       detail |-> "Incorrect email or password",
                                       email |-> email, password |-> password])
                        ELSE Goto(p, "login_issue",
                                  [t |-> "login", user |-> user,
                                   email |-> email, password |-> password])

\* update_one last_login and the token pair (login_user lines 150-170)
LoginIssue(p) ==
    /\ pc[p] = "login_issue"
    /\ UNCHANGED <<recipes, nextOid, now, client, settings, monitor, prometheus, services>>
    /\ LET user == loc[p].user
           token_data == [sub |-> user.email, user_id |-> Str(user._id)]
           access_token == create_access_token(token_data)
           refresh_token == create_refresh_token(token_data)
       IN  /\ users' = {IF u._id = user._id THEN [u EXCEPT !.last_login = now] ELSE u
                        : u \in users}
           /\ tokens' = tokens \cup {access_token, refresh_token}
           /\ Reply(p, [op |-> "login", status |-> 200, detail |-> "",
                        email |-> loc[p].email, password |-> loc[p].password,
                        access_token |-> access_token,
                        refresh_token |-> refresh_token,
                        token_type |-> "bearer", at |-> now])

-----------------------------------------------------------------------------
(* dependencies.py *)

\* a variant that trusts the token's claims without reading the user back
get_current_user_trusting(token) ==
    LET payload == decode_token(token)
    IN  IF payload = None THEN None
        ELSE IF payload.sub = NoneStr \/ payload.user_id = None THEN None
        ELSE [t |-> "user", id |-> payload.user_id, username |-> payload.sub,
              email |-> payload.sub, last_login |-> NoTime,
              preferences |-> "beginner"]

\* get_current_user: the user a bearer token resolves to, or None (401)
get_current_user(token) ==
    LET payload == decode_token(token)
    IN  IF payload = None THEN None
        ELSE IF payload.sub = NoneStr \/ payload.user_id = None THEN None
        ELSE LET user == get_user_by_id(payload.user_id)
             IN  IF user = None THEN None ELSE UserResponse(user)

Unauthorized(op, token) ==
    [op |-> op, status |-> 401, detail |-> "Could not validate credentials",
     token |-> token]

\* security = HTTPBearer(): with the default auto_error a request without
\* bearer credentials is refused by the scheme itself, before any dependency
\* body runs; the status is 403 or 401 depending on the installed FastAPI
BearerRejections == {401, 403}

\* get_optional_current_user: None without credentials or when resolution fails
get_optional_current_user(credentials) ==
    IF credentials = None THEN None ELSE get_current_user(credentials)

\* GET /recipes/static: the security scheme, the optional-auth dependency and
\* the page of results (the static collection is empty and never written here)
StaticRecipes(p, presented) ==
    \E credentials \in presented \cup {None} :
        /\ pc[p] = "idle"
        /\ UNCHANGED <<users, recipes, nextOid, now, tokens, client, settings, monitor, prometheus, services>>
        /\ IF credentials = None
           THEN \E st \in BearerRejections :
                    Reply(p, [op |-> "static", status |-> st,
                              detail |-> "Not authenticated",
                              credentials |-> credentials])
           ELSE Reply(p, [op |-> "static", status |-> 200,
                          current_user |-> get_optional_current_user(credentials),
                          credentials |-> credentials,
                          results |-> [recipes |-> <<>>, total |-> 0, page |-> 1]])

\* GET /auth/me: any route that only resolves the caller (routes/auth.py 71-80)
AuthMe(p, presented) ==
    \E token \in presented :
        /\ pc[p] = "idle"
        /\ UNCHANGED <<users, recipes, nextOid, now, tokens, client, settings, monitor, prometheus, services>>
        /\ LET current_user == get_current_user(token)
           IN  IF current_user = None
               THEN Reply(p, Unauthorized("me", token))
               ELSE Reply(p, [op |-> "me", status |-> 200, detail |-> "",
                              token |-> token, body |-> current_user])

-----------------------------------------------------------------------------
(* routes/users.py: PUT /users/profile *)

UpdateInputs == [username : Usernames \cup {NoneStr},
                 preferences : {NoneStr, "advanced"}]

\* the get_current_user dependency of the route
UpdateResolve(p, presented) ==
    \E token \in presented, update_data \in UpdateInputs :
        /\ pc[p] = "idle"
        /\ UNCHANGED <<users, recipes, nextOid, now, tokens, client, settings, monitor, prometheus, services>>
        /\ LET current_user == get_current_user(token)
           IN  IF current_user = None
               THEN Reply(p, Unauthorized("update", token))
               ELSE Goto(p, "upd_check",
                         [t |-> "update", current_user |-> current_user,
                          update_data |-> update_data])

\* the "taken by another user" query (update_user_profile lines 51-69); the
\* filter compares the ObjectId _id with the string current_user.id
UpdateCheck(p) ==
    /\ pc[p] = "upd_check"
    /\ UNCHANGED <<users, recipes, nextOid, now, tokens, client, settings, monitor, prometheus, services>>
    /\ LET current_user == loc[p].current_user
           update_data == loc[p].update_data
           existing == {u \in users : /\ u.username = update_data.username
                                      /\ u._id # current_user.id}
       IN  IF update_data.username # NoneStr /\ existing # {}
           THEN Reply(p, [op |-> "update", status |-> 400,
                          detail |-> "Username already taken",
                          caller |-> current_user.id,
                          username |-> update_data.username])
           ELSE Goto(p, "upd_write",
                     [t |-> "update", current_user |-> current_user,
                      update_dict |-> update_data])

\* the document `doc` after {"$set": update_dict}, None-valued keys dropped
ApplySet(doc, update_dict) ==
    [doc EXCEPT !.username = IF update_dict.username = NoneStr
                             THEN doc.username ELSE update_dict.username,
                !.preferences = IF update_dict.preferences = NoneStr
                                THEN doc.preferences ELSE update_dict.preferences]

UpdateFailed(p) ==
    Reply(p, [op |-> "update", status |-> 500, detail |-> "Failed to update profile"])

\* AuthService.update_user_profile up to update_one (lines 218-232)
UpdateWrite(p) ==
    /\ pc[p] = "upd_write"
    /\ UNCHANGED <<recipes, nextOid, now, tokens, client, settings, monitor, prometheus, services>>
    /\ LET user_id == loc[p].current_user.id
           update_dict == loc[p].update_dict
           matched == {u \in users : u._id = ObjectId(user_id)}
       IN  IF update_dict.username = NoneStr /\ update_dict.preferences = NoneStr
           THEN UNCHANGED users /\ UpdateFailed(p)
           ELSE IF matched = {}
           THEN UNCHANGED users /\ UpdateFailed(p)
           ELSE \E target \in matched :
                    LET doc == ApplySet(target, update_dict)
                    IN  IF DuplicateKey(doc) \/ doc = target
                        THEN UNCHANGED users /\ UpdateFailed(p)
                        ELSE /\ users' = (users \ {target}) \cup {doc}
                             /\ Goto(p, "upd_reread", loc[p])

\* get_user_by_id after the update and the response (lines 235-249)
UpdateReread(p) ==
    /\ pc[p] = "upd_reread"
    /\ UNCHANGED <<users, recipes, nextOid, now, tokens, client, settings, monitor, prometheus, services>>
    /\ LET updated_user == get_user_by_id(loc[p].current_user.id)
       IN  IF updated_user = None
           THEN UpdateFailed(p)
           ELSE Reply(p, [op |-> "update", status |-> 200, detail |-> "",
                          body |-> UserResponse(updated_user)])

-----------------------------------------------------------------------------
(* Environment *)

\* the handler has returned; the worker takes the next request
Return(p) ==
    /\ pc[p] = "done"
    /\ pc' = [pc EXCEPT ![p] = "idle"]
    /\ resp' = [resp EXCEPT ![p] = None]
    /\ UNCHANGED <<users, recipes, nextOid, now, tokens, client, loc, settings, monitor, prometheus, services>>

Tick ==
    /\ now < MaxTicks * ACCESS_TOKEN_EXPIRE_MINUTES
    /\ now' = now + ACCESS_TOKEN_EXPIRE_MINUTES
    /\ UNCHANGED <<users, recipes, nextOid, tokens, client, pc, loc, resp, settings, monitor, prometheus, services>>

\* a dict: a function whose domain is the set of keys present
EmptyDict == [k \in {} |-> 0]

DefaultWindowSize == 1000

\* ModelMonitor.__init__
ModelMonitor(window_size) ==
    [window_size |-> window_size,
     prediction_history |-> EmptyDict,
     confidence_history |-> EmptyDict,
     latency_history |-> EmptyDict,
     baseline_stats |-> EmptyDict,
     drift_events |-> <<>>]

\* the metrics registry: gauges by label, the drift counter by label triple
PrometheusMetrics ==
    [data_drift_score |-> EmptyDict,
     model_performance_score |-> EmptyDict,
     drift_events_total |-> EmptyDict,
     system_health |-> None,
     system_info |-> None]

\* MLflowManager.__init__ before its first connection attempt (lines 38-42)
MLflowManager ==
    [initialized |-> FALSE, experiment_id |-> None, _connection_attempted |-> FALSE]

\* the tracking server: whether it answers, the experiment the client created
\* on it, and the calls it has accepted, in order
TrackingServer(reachable) ==
    [reachable |-> reachable, experiment |-> None, received |-> <<>>]

\* DatabaseManager's class attributes (lines 18-19)
DatabaseManager == [client |-> None, db |-> None]

DatabaseHandle == [t |-> "db"]
\* AsyncIOMotorClient(uri): built without contacting the server; connected
\* once a command has been answered
MotorClient == [t |-> "client", connected |-> FALSE]

\* the application after a start-up that connected to the database (main.py
\* lines 33-46) while no tracking server was running
ServicesStarted ==
    /\ mlflow_manager = [MLflowManager EXCEPT !._connection_attempted = TRUE]
    /\ tracking_server = TrackingServer(FALSE)
    /\ db_manager = [client |-> [MotorClient EXCEPT !.connected = TRUE],
                     db |-> DatabaseHandle]

Init ==
    /\ users = {}
    /\ recipes = {}
    /\ nextOid = 1
    /\ now = 0
    /\ tokens = {}
    /\ client = [p \in Procs |-> None]
    /\ settings = DefaultSettings
    /\ monitor = ModelMonitor(DefaultWindowSize)
    /\ prometheus = PrometheusMetrics
    /\ ServicesStarted
    /\ pc = [p \in Procs |-> "idle"]
    /\ loc = [p \in Procs |-> Idle]
    /\ resp = [p \in Procs |-> None]

-----------------------------------------------------------------------------
(* Accounts: concurrent registration and profile update *)

AccountPayloads == [username : Usernames, email : Emails,
                    password : {pwStrongA, pwNoSpecial}]

NextAccounts ==
    \/ \E p \in Procs : RegisterCheck(p, AccountPayloads)
    \/ \E p \in Procs : RegisterInsert(p)
    \/ \E p \in Procs : RegisterReread(p)
    \/ \E p \in Procs : LoginAuthenticate(p, {pwStrongA})
    \/ \E p \in Procs : LoginIssue(p)
    \/ \E p \in Procs : UpdateResolve(p, {tk \in tokens : tk.type = "access"})
    \/ \E p \in Procs : UpdateCheck(p)
    \/ \E p \in Procs : UpdateWrite(p)
    \/ \E p \in Procs : UpdateReread(p)
    \/ \E p \in Procs : Return(p)

SpecAccounts == Init /\ [][NextAccounts]_vars

-----------------------------------------------------------------------------
(* Sessions: register, log in, present a bearer token *)

SessionPayloads == {[username |-> "alice", email |-> "a@x.io", password |-> pw]
                        : pw \in {pwStrongA, pwStrongB, pwShort}}

NextSession ==
    \/ \E p \in Procs : RegisterCheck(p, SessionPayloads)
    \/ \E p \in Procs : RegisterInsert(p)
    \/ \E p \in Procs : RegisterReread(p)
    \/ \E p \in Procs : LoginAuthenticate(p, {pwStrongA, pwStrongB})
    \/ \E p \in Procs : LoginIssue(p)
    \/ \E p \in Procs : AuthMe(p, Presentable)
    \/ \E p \in Procs : StaticRecipes(p, Presentable)
    \/ \E p \in Procs : Return(p)
    \/ Tick

SpecSession == Init /\ [][NextSession]_vars

-----------------------------------------------------------------------------
(* Recipe text: a line is a sequence of tokens, " " is whitespace, "." a dot *)

DigitTokens == {"1", "2", "3", "4", "5"}
DigitVal(d) == CASE d = "1" -> 1 [] d = "2" -> 2 [] d = "3" -> 3
                 [] d = "4" -> 4 [] d = "5" -> 5

RECURSIVE LStrip(_)
LStrip(line) == IF line # <<>> /\ Head(line) = " " THEN LStrip(Tail(line)) ELSE line

RECURSIVE RStrip(_)
RStrip(line) == IF line # <<>> /\ line[Len(line)] = " "
                THEN RStrip(SubSeq(line, 1, Len(line) - 1)) ELSE line

\* str.strip()
Strip(line) == RStrip(LStrip(line))

\* line.replace(tag, '')
Remove(line, tag) == SelectSeq(line, LAMBDA tok : tok # tag)

\* line.split('.', 1)[-1]
AfterFirstDot(line) ==
    LET dots == {i \in 1..Len(line) : line[i] = "."}
    IN  IF dots = {} THEN line
        ELSE LET first == CHOOSE i \in dots : \A j \in dots : i <= j
             IN  SubSeq(line, first + 1, Len(line))

\* int(''.join(filter(str.isdigit, text))); NoTime when int('') raises
RECURSIVE DigitsToInt(_, _)
DigitsToInt(digits, acc) ==
    IF digits = <<>> THEN acc
    ELSE DigitsToInt(Tail(digits), acc * 10 + DigitVal(Head(digits)))

IntOfDigits(line) ==
    LET digits == SelectSeq(line, LAMBDA tok : tok \in DigitTokens)
    IN  IF digits = <<>> THEN NoTime ELSE DigitsToInt(digits, 0)

\* ', '.join(items)
RECURSIVE Join(_)
Join(items) == IF Len(items) <= 1 THEN items
               ELSE <<Head(items), ",", " ">> \o Join(Tail(items))

DefaultEstimatedTime == 30
DefaultServings == 4

\* generic steps one short of the minimum
GenericSteps_two(request) ==
    << <<"Prepare all ingredients:", " ">> \o Join(request.ingredients),
       <<"Serve hot and enjoy!">> >>

\* the three generic steps of _parse_recipe_response (lines 268-273)
GenericSteps(request) ==
    << <<"Prepare all ingredients:", " ">> \o Join(request.ingredients),
       <<"Follow the cooking process carefully">>,
       <<"Serve hot and enjoy!">> >>

\* one iteration of the loop over lines (lines 236-265)
ParseLine(acc, raw) ==
    LET line == Strip(raw)
    IN  IF line = <<>> THEN acc
        ELSE IF line[1] = "TITLE:"
        THEN [acc EXCEPT !.title = Strip(Remove(line, "TITLE:"))]
        ELSE IF line[1] = "STEPS:"
        THEN [acc EXCEPT !.current_section = "steps"]
        ELSE IF line[1] = "TIME:"
        THEN LET n == IntOfDigits(Strip(Remove(line, "TIME:")))
             IN  IF n = NoTime THEN acc ELSE [acc EXCEPT !.estimated_time = n]
        ELSE IF line[1] = "DIFFICULTY:"
        THEN LET diff == Strip(Remove(line, "DIFFICULTY:"))
             IN  IF diff \in {<<"easy">>, <<"medium">>, <<"hard">>}
                 THEN [acc EXCEPT !.difficulty = diff[1]] ELSE acc
        ELSE IF line[1] = "TIPS:"
        THEN [acc EXCEPT !.tips = Strip(Remove(line, "TIPS:"))]
        ELSE IF line[1] = "SERVINGS:"
        THEN LET n == IntOfDigits(line)
             IN  IF n = NoTime THEN acc ELSE [acc EXCEPT !.servings = n]
        ELSE IF acc.current_section = "steps" /\ line[1] \in DigitTokens
        THEN LET step == Strip(AfterFirstDot(line))
             IN  IF step # <<>> THEN [acc EXCEPT !.steps = Append(@, step)] ELSE acc
        ELSE acc

RECURSIVE ParseLines(_, _)
ParseLines(acc, lines) ==
    IF lines = <<>> THEN acc ELSE ParseLines(ParseLine(acc, Head(lines)), Tail(lines))

MinSteps == 3

\* GeneratedRecipe(...): pydantic refuses fewer than min_items steps
GeneratedRecipe(title, steps, estimated_time, difficulty, tips, servings) ==
    IF Len(steps) < MinSteps THEN None
    ELSE [t |-> "recipe", title |-> title, steps |-> steps,
          estimated_time |-> estimated_time, difficulty |-> difficulty,
          tips |-> tips, servings |-> servings]

\* RecipeGenerationService._parse_recipe_response for a str content
_parse_recipe_response(content, request) ==
    LET start == [title |-> <<"Custom Recipe">>, steps |-> <<>>,
                  estimated_time |-> IF request.cooking_time = 0
                                     THEN DefaultEstimatedTime
                                     ELSE request.cooking_time,
                  difficulty |-> IF request.difficulty = NoneStr
                                 THEN "medium" ELSE request.difficulty,
                  tips |-> <<NoneStr>>, servings |-> DefaultServings,
                  current_section |-> NoneStr]
        acc == ParseLines(start, content)
        steps == IF Len(acc.steps) < MinSteps THEN GenericSteps(request) ELSE acc.steps
    IN  GeneratedRecipe(acc.title, steps, acc.estimated_time, acc.difficulty,
                        acc.tips, acc.servings)

\* str.title() on the ingredient names in use
TitleCase(word) == CASE word = "rice" -> "Rice" [] word = "egg" -> "Egg"
                     [] OTHER -> word

\* RecipeGenerationService.generate_recipe_fallback
generate_recipe_fallback(request) ==
    GeneratedRecipe(
        <<"Custom Recipe with", " ", TitleCase(request.ingredients[1])>>,
        << <<"Gather all ingredients:", " ">> \o Join(request.ingredients),
           <<"Prepare and clean all ingredients thoroughly">>,
           <<"Heat a pan or pot with some oil">>,
           <<"Add the main ingredients and cook as needed">>,
           <<"Season with salt, pepper, and spices to taste">>,
           <<"Cook until everything is well done">>,
           <<"Serve hot and enjoy your meal!">> >>,
        IF request.cooking_time = 0 THEN DefaultEstimatedTime ELSE request.cooking_time,
        IF request.difficulty = NoneStr THEN "medium" ELSE request.difficulty,
        <<"Adjust cooking time based on your ingredients and preferences">>,
        DefaultServings)

-----------------------------------------------------------------------------
(* Parsing of AI response text, on its own *)

MaxLines == 6

LineSteps == <<"STEPS:">>
LineStepChop == <<"1", ".", " ", "Chop the onion">>
LineStepBoil == <<"2", ".", " ", "Boil", ".", " ", "Then stir", " ">>
LineStepBlank == <<"3", ".", " ">>
LineStepParen == <<" ", "4", ")", " ", "Mix">>
BodyLines == {LineSteps, LineStepChop, LineStepBoil, LineStepBlank, LineStepParen}

\* a response in the format the prompt asks for (lines 205-218)
FormattedContent ==
    << <<"TITLE:", " ", "Onion Soup">>, <<>>, LineSteps, LineStepChop, LineStepBoil,
       <<"3", ".", " ", "Serve">>, <<"TIME:", " ", "4", "5", " ", "minutes">>,
       <<"DIFFICULTY:", " ", "easy">>, <<"TIPS:", " ", "Use fresh stock">>,
       <<"SERVINGS:", " ", "2">> >>

\* a response whose headers carry no usable value
SloppyContent ==
    << <<"TITLE:">>, <<"TIME:", " ", "soon">>, <<"DIFFICULTY:", " ", "tricky">>,
       <<"SERVINGS:", " ", "some">>, <<"5", ".", " ", "Eat">> >>

SeqsUpTo(S, n) == UNION {[1..k -> S] : k \in 0..n}

ParseContents == SeqsUpTo(BodyLines, MaxLines) \cup {FormattedContent, SloppyContent}

PlainRequest == [ingredients |-> <<"rice", "egg">>, cooking_time |-> 0,
                 difficulty |-> NoneStr, cuisine_type |-> NoneStr]
TimedRequest == [ingredients |-> <<"egg", "rice", "oil">>, cooking_time |-> 45,
                 difficulty |-> "hard", cuisine_type |-> NoneStr]

\* recipe = self._parse_recipe_response(content, request) (line 101)
ParseResponse(p) ==
    /\ pc[p] = "ai_text"
    /\ UNCHANGED <<users, recipes, nextOid, now, tokens, client, settings, monitor, prometheus, services>>
    /\ Reply(p, [op |-> "parse", content |-> loc[p].content, request |-> loc[p].request,
                 recipe |-> _parse_recipe_response(loc[p].content, loc[p].request)])

\* recipe = await self.generate_recipe_fallback(request) (line 353)
FallbackRecipe(p) ==
    /\ pc[p] = "ai_text"
    /\ UNCHANGED <<users, recipes, nextOid, now, tokens, client, settings, monitor, prometheus, services>>
    /\ Reply(p, [op |-> "fallback", content |-> loc[p].content, request |-> loc[p].request,
                 recipe |-> generate_recipe_fallback(loc[p].request)])

\* the AI call of one request has returned its text
InitParse ==
    /\ users = {} /\ recipes = {} /\ nextOid = 1 /\ now = 0 /\ tokens = {}
    /\ client = [p \in Procs |-> None]
    /\ settings = DefaultSettings
    /\ monitor = ModelMonitor(DefaultWindowSize)
    /\ prometheus = PrometheusMetrics
    /\ ServicesStarted
    /\ resp = [p \in Procs |-> None]
    /\ \E content \in ParseContents : \E request \in {PlainRequest, TimedRequest} :
          /\ pc = [p \in Procs |-> IF p = "p1" THEN "ai_text" ELSE "idle"]
          /\ loc = [p \in Procs |-> IF p = "p1"
                                    THEN [t |-> "ai_text", content |-> content,
                                          request |-> request]
                                    ELSE Idle]

NextParse ==
    \E p \in Procs :
        \/ ParseResponse(p)
        \/ FallbackRecipe(p)
        \/ Return(p)

SpecParse == InitParse /\ [][NextParse]_vars

-----------------------------------------------------------------------------
(* services/model_monitoring_service.py, services/prometheus_service.py *)
(* Confidences and latencies are integers in hundredths (0.70 is 70, 2.0 s  *)
(* is 200); drift scores are integers in units of 1/ScoreScale.  The 1e-10  *)
(* added to every denominator is below that resolution and only matters for *)
(* a zero standard deviation, where the score saturates.                    *)

Put(dict, key, value) ==
    [k \in DOMAIN dict \cup {key} |-> IF k = key THEN value ELSE dict[k]]

\* dict.get(key, default)
Get(dict, key, default) == IF key \in DOMAIN dict THEN dict[key] ELSE default

ScoreScale == 10000
ScoreSaturated == 1000000000

DRIFT_DETECTION_THRESHOLD == 1500
HighSeverityAbove == 3000
BASELINE_CONFIDENCE_MEAN == 70
BASELINE_CONFIDENCE_STD == 15
BASELINE_LATENCY_MEAN == 200
BASELINE_LATENCY_STD == 50
MinPredictions == 30
RecentWindow == 100

Abs(x) == IF x < 0 THEN -x ELSE x

Max(a, b) == IF a >= b THEN a ELSE b

RECURSIVE SumSeq(_)
SumSeq(s) == IF s = <<>> THEN 0 ELSE Head(s) + SumSeq(Tail(s))

RECURSIVE SumSquares(_)
SumSquares(s) == IF s = <<>> THEN 0 ELSE Head(s) * Head(s) + SumSquares(Tail(s))

RECURSIVE ISqrtIn(_, _, _)
ISqrtIn(n, lo, hi) ==
    IF lo >= hi THEN lo
    ELSE LET mid == (lo + hi + 1) \div 2
         IN  IF mid * mid <= n THEN ISqrtIn(n, mid, hi) ELSE ISqrtIn(n, lo, mid - 1)

\* floor of the square root
ISqrt(n) == ISqrtIn(n, 0, 46340)

\* list(d)[-n:]
LastN(s, n) == IF Len(s) <= n THEN s ELSE SubSeq(s, Len(s) - n + 1, Len(s))

\* float(np.mean(values)), in hundredths, for a gauge
MeanOf(s) == SumSeq(s) \div Len(s)

\* float(np.std(values)) (population standard deviation), in thousandths
StdMilli(s) ==
    LET n == Len(s)
    IN  ISqrt(((n * SumSquares(s) - SumSeq(s) * SumSeq(s)) * 100) \div (n * n))

\* abs(current - mean) / (std + 1e-10) for one reading
Deviation(current, mean, std) ==
    IF std = 0
    THEN IF current = mean THEN 0 ELSE ScoreSaturated
    ELSE (Abs(current - mean) * ScoreScale) \div std

\* abs(np.mean(values) - mean) / (std + 1e-10)
MeanDeviation(s, mean, std) ==
    IF std = 0
    THEN IF SumSeq(s) = Len(s) * mean THEN 0 ELSE ScoreSaturated
    ELSE (Abs(SumSeq(s) - Len(s) * mean) * ScoreScale) \div (Len(s) * std)

\* abs(np.std(values) - std) / (std + 1e-10)
StdDeviation(s, std) ==
    IF std = 0
    THEN IF StdMilli(s) = 0 THEN 0 ELSE ScoreSaturated
    ELSE (Abs(StdMilli(s) - 10 * std) * (ScoreScale \div 10)) \div std

\* a variant that counts a score of exactly 0.3 as high
Severity_inclusive(drift_score) ==
    IF drift_score >= HighSeverityAbove THEN "high" ELSE "medium"

\* "high" if drift_score > 0.3 else "medium"
Severity(drift_score) == IF drift_score > HighSeverityAbove THEN "high" ELSE "medium"

\* a variant without the maxlen of the deque
DequeAppend_unbounded(d, x, maxlen) == Append(d, x)

\* deque(maxlen=window_size).append(x): a full deque drops its oldest entry
DequeAppend(d, x, maxlen) ==
    LET a == Append(d, x)
    IN  IF Len(a) > maxlen THEN Tail(a) ELSE a

\* how a guarded block of metrics calls can end: every call succeeds, the
\* registry could not be loaded, or the first or the second call raises
PromFaults == {"ok", "unavailable", "raise_first", "raise_second"}

set_data_drift_score(prom, feature, score) ==
    [prom EXCEPT !.data_drift_score = Put(@, feature, score)]

set_model_performance_score(prom, model_name, metric, score) ==
    [prom EXCEPT !.model_performance_score = Put(@, <<model_name, metric>>, score)]

track_drift_event(prom, model_name, drift_type, severity) ==
    [prom EXCEPT !.drift_events_total =
        Put(@, <<model_name, drift_type, severity>>,
            Get(@, <<model_name, drift_type, severity>>, 0) + 1)]

\* the state both services read and write: w.monitor and w.prometheus
World == [monitor |-> monitor, prometheus |-> prometheus]

\* record_prediction (lines 80-139): the three windows, then the two gauges
record_prediction(w, model_name, prediction, confidence, latency, fault) ==
    LET m == w.monitor
        prediction_record == [timestamp |-> now, prediction |-> prediction,
                              confidence |-> confidence, latency |-> latency]
        m2 == [m EXCEPT
                 !.prediction_history =
                     Put(@, model_name,
                         DequeAppend(Get(@, model_name, <<>>), prediction_record,
                                     m.window_size)),
                 !.confidence_history =
                     Put(@, model_name,
                         DequeAppend(Get(@, model_name, <<>>), confidence,
                                     m.window_size)),
                 !.latency_history =
                     Put(@, model_name,
                         DequeAppend(Get(@, model_name, <<>>), latency,
                                     m.window_size))]
        confs == m2.confidence_history[model_name]
        lats == m2.latency_history[model_name]
        pr1 == IF confs = <<>> THEN w.prometheus
               ELSE set_model_performance_score(w.prometheus, model_name,
                                                "avg_confidence", MeanOf(confs))
        pr2 == IF lats = <<>> THEN pr1
               ELSE set_model_performance_score(pr1, model_name,
                                                "avg_latency", MeanOf(lats))
    IN  [monitor |-> m2,
         prometheus |-> CASE fault = "ok" -> pr2
                          [] fault = "raise_second" -> pr1
                          [] OTHER -> w.prometheus]

\* baseline_data.get(field, settings.BASELINE_...)
set_baseline(w, model_name, baseline_data) ==
    [w EXCEPT !.monitor.baseline_stats =
        Put(@, model_name,
            [confidence_mean |-> Get(baseline_data, "confidence_mean",
                                     BASELINE_CONFIDENCE_MEAN),
             confidence_std |-> Get(baseline_data, "confidence_std",
                                    BASELINE_CONFIDENCE_STD),
             latency_mean |-> Get(baseline_data, "latency_mean",
                                  BASELINE_LATENCY_MEAN),
             latency_std |-> Get(baseline_data, "latency_std",
                                 BASELINE_LATENCY_STD),
             timestamp |-> now])]

\* check_drift (lines 162-239): the quick check on current readings
check_drift(w, model_name, current_metrics, fault) ==
    LET w1 == IF model_name \in DOMAIN w.monitor.baseline_stats
              THEN w ELSE set_baseline(w, model_name, EmptyDict)
        baseline == w1.monitor.baseline_stats[model_name]
        has_conf == "confidence" \in DOMAIN current_metrics
        has_lat == "latency" \in DOMAIN current_metrics
        conf_diff == IF has_conf
                     THEN Deviation(current_metrics["confidence"],
                                    baseline.confidence_mean, baseline.confidence_std)
                     ELSE 0
        lat_diff == IF has_lat
                    THEN Deviation(current_metrics["latency"],
                                   baseline.latency_mean, baseline.latency_std)
                    ELSE 0
        drift_score == Max(Max(0, conf_diff), lat_diff)
        d1 == IF has_conf THEN Put(EmptyDict, "confidence_deviation", conf_diff)
              ELSE EmptyDict
        drift_details == IF has_lat THEN Put(d1, "latency_deviation", lat_diff) ELSE d1
        drift_detected == drift_score > DRIFT_DETECTION_THRESHOLD
        pr1 == set_data_drift_score(w1.prometheus, <<model_name, "quick_check">>,
                                    drift_score)
        pr2 == track_drift_event(pr1, model_name, "quick_check", Severity(drift_score))
    IN  [w |-> [w1 EXCEPT !.prometheus =
                   IF ~drift_detected THEN @
                   ELSE CASE fault = "ok" -> pr2
                          [] fault = "raise_second" -> pr1
                          [] OTHER -> @],
         result |-> [drift_detected |-> drift_detected,
                     drift_score |-> drift_score,
                     drift_type |-> "quick_check",
                     details |-> drift_details,
                     threshold |-> DRIFT_DETECTION_THRESHOLD,
                     timestamp |-> now]]

DriftTypes == {"confidence", "latency"}

\* a variant that is content with a single recorded prediction
EnoughPredictions_any(m, model_name) == model_name \in DOMAIN m.prediction_history

\* model_name in prediction_history and len(...) >= 30 (line 262)
EnoughPredictions(m, model_name) ==
    /\ model_name \in DOMAIN m.prediction_history
    /\ Len(m.prediction_history[model_name]) >= MinPredictions

\* a variant that forgets the event
RecordDriftEvent_dropped(m, drift_event) == m

\* self.drift_events.append(drift_event) (line 332)
RecordDriftEvent(m, drift_event) ==
    [m EXCEPT !.drift_events = Append(@, drift_event)]

\* detect_drift (lines 241-366): the check on the recorded windows.  Each of
\* its metrics calls sits in a try of its own, so a fault affects that call only
detect_drift(w, model_name, drift_type, fault) ==
    LET m == w.monitor
    IN  IF model_name \notin DOMAIN m.baseline_stats
        THEN [w |-> w, result |-> [drift_detected |-> FALSE, reason |-> "no_baseline"]]
        ELSE IF ~EnoughPredictions(m, model_name)
        THEN [w |-> w, result |-> [drift_detected |-> FALSE,
                                   reason |-> "insufficient_data"]]
        ELSE
        LET baseline == m.baseline_stats[model_name]
            recent_confidences == LastN(m.confidence_history[model_name], RecentWindow)
            recent_latencies == LastN(m.latency_history[model_name], RecentWindow)
            mean_diff == MeanDeviation(recent_confidences, baseline.confidence_mean,
                                       baseline.confidence_std)
            std_diff == StdDeviation(recent_confidences, baseline.confidence_std)
            drift_score ==
                CASE drift_type = "confidence" -> (mean_diff + std_diff) \div 2
                  [] drift_type = "latency" ->
                        MeanDeviation(recent_latencies, baseline.latency_mean,
                                      baseline.latency_std)
                  [] OTHER -> 0
            drift_details ==
                CASE drift_type = "confidence" ->
                        [current_mean |-> MeanOf(recent_confidences),
                         baseline_mean |-> baseline.confidence_mean,
                         current_std |-> StdMilli(recent_confidences),
                         baseline_std |-> baseline.confidence_std,
                         mean_diff |-> mean_diff, std_diff |-> std_diff]
                  [] drift_type = "latency" ->
                        [current_mean_latency |-> MeanOf(recent_latencies),
                         baseline_mean_latency |-> baseline.latency_mean,
                         latency_increase_pct |->
                             IF baseline.latency_mean > 0
                             THEN ((SumSeq(recent_latencies)
                                      - Len(recent_latencies) * baseline.latency_mean)
                                   * 100)
                                  \div (Len(recent_latencies) * baseline.latency_mean)
                             ELSE 0]
                  [] OTHER -> EmptyDict
            drift_detected == drift_score > DRIFT_DETECTION_THRESHOLD
            severity == Severity(drift_score)
            drift_event == [model_name |-> model_name, drift_type |-> drift_type,
                            drift_score |-> drift_score,
                            drift_details |-> drift_details,
                            timestamp |-> now, severity |-> severity]
            pr1 == IF fault \in {"ok", "raise_second"}
                   THEN set_data_drift_score(w.prometheus, <<model_name, drift_type>>,
                                             drift_score)
                   ELSE w.prometheus
            pr2 == IF drift_detected /\ fault \in {"ok", "raise_second"}
                   THEN track_drift_event(pr1, model_name, drift_type, severity)
                   ELSE pr1
        IN  [w |-> [monitor |-> IF drift_detected
                                THEN RecordDriftEvent(m, drift_event)
                                ELSE m,
                    prometheus |-> pr2],
             result |-> [drift_detected |-> drift_detected,
                         drift_score |-> drift_score,
                         drift_type |-> drift_type,
                         details |-> drift_details,
                         threshold |-> DRIFT_DETECTION_THRESHOLD,
                         timestamp |-> now]]

-----------------------------------------------------------------------------
(* The monitor on its own: recording, baselines, the two drift checks *)

MaxWindow == 2
MaxRecords == 4
MaxNew == 2
MaxEvents == 2
MaxDetections == 1

MonitoredModels == {"clip_ingredient_detector", "openai_vision"}

\* the number of record_prediction calls made so far for a model is passed as
\* the prediction payload, so every record says when it was recorded
NextSerial(model_name) ==
    LET h == Get(monitor.prediction_history, model_name, <<>>)
    IN  IF h = <<>> THEN 1 ELSE h[Len(h)].prediction + 1

\* record_prediction called with the explicit arguments
RecordPrediction(p, models, readings, faults, cap) ==
    \E model_name \in models, reading \in readings, fault \in faults :
        /\ pc[p] = "idle"
        /\ NextSerial(model_name) <= cap
        /\ UNCHANGED <<users, recipes, nextOid, now, tokens, client, settings, services>>
        /\ LET w == record_prediction(World, model_name, NextSerial(model_name),
                                      reading.confidence, reading.latency, fault)
           IN  /\ monitor' = w.monitor
               /\ prometheus' = w.prometheus
               /\ Reply(p, [op |-> "record_prediction", model_name |-> model_name,
                            prediction |-> NextSerial(model_name),
                            confidence |-> reading.confidence,
                            latency |-> reading.latency])

\* POST /mlops/models/{name}/baseline and every other caller of set_baseline
SetBaseline(p, models, baselines) ==
    \E model_name \in models, baseline_data \in baselines :
        /\ pc[p] = "idle"
        /\ UNCHANGED <<users, recipes, nextOid, now, tokens, client, settings, services>>
        /\ LET w == set_baseline(World, model_name, baseline_data)
           IN  /\ monitor' = w.monitor
               /\ prometheus' = w.prometheus
               /\ Reply(p, [op |-> "set_baseline", model_name |-> model_name,
                            baseline_data |-> baseline_data])

RECURSIVE SumValues(_)
SumValues(dict) ==
    IF DOMAIN dict = {} THEN 0
    ELSE LET k == CHOOSE x \in DOMAIN dict : TRUE
         IN  dict[k] + SumValues([x \in DOMAIN dict \ {k} |-> dict[x]])

\* drift events appended and counted so far
EventsSoFar == Max(Len(monitor.drift_events), SumValues(prometheus.drift_events_total))

CheckDrift(p, models, metrics, faults) ==
    \E model_name \in models, current_metrics \in metrics, fault \in faults :
        /\ pc[p] = "idle"
        /\ EventsSoFar < MaxEvents
        /\ UNCHANGED <<users, recipes, nextOid, now, tokens, client, settings, services>>
        /\ LET r == check_drift(World, model_name, current_metrics, fault)
           IN  /\ monitor' = r.w.monitor
               /\ prometheus' = r.w.prometheus
               /\ Reply(p, [op |-> "check_drift", model_name |-> model_name,
                            current_metrics |-> current_metrics, fault |-> fault,
                            result |-> r.result])

DetectDrift(p, models, drift_types, faults) ==
    \E model_name \in models, drift_type \in drift_types, fault \in faults :
        /\ pc[p] = "idle"
        /\ EventsSoFar < MaxEvents
        /\ UNCHANGED <<users, recipes, nextOid, now, tokens, client, settings, services>>
        /\ LET r == detect_drift(World, model_name, drift_type, fault)
           IN  /\ monitor' = r.w.monitor
               /\ prometheus' = r.w.prometheus
               /\ Reply(p, [op |-> "detect_drift", model_name |-> model_name,
                            drift_type |-> drift_type, fault |-> fault,
                            result |-> r.result])

\* readings recorded in the window specification
WindowReadings == {[confidence |-> 55, latency |-> 200],
                   [confidence |-> 85, latency |-> 500]}

\* a monitor constructed with a small window
InitWindow ==
    /\ users = {} /\ recipes = {} /\ nextOid = 1 /\ now = 0 /\ tokens = {}
    /\ client = [p \in Procs |-> None]
    /\ settings = DefaultSettings
    /\ monitor = ModelMonitor(MaxWindow)
    /\ prometheus = PrometheusMetrics
    /\ ServicesStarted
    /\ pc = [p \in Procs |-> "idle"]
    /\ loc = [p \in Procs |-> Idle]
    /\ resp = [p \in Procs |-> None]

NextWindow ==
    \/ \E p \in Procs : RecordPrediction(p, MonitoredModels, WindowReadings,
                                         {"ok"}, MaxRecords)
    \/ \E p \in Procs : Return(p)

SpecWindow == InitWindow /\ [][NextWindow]_vars

\* the quick and the historical check on a monitor that has already recorded
\* SeedPredictions readings for one model: confidences alternating around the
\* default baseline mean, latencies at the default baseline mean
SeedPredictions == MinPredictions - 2

SeededModel == "clip_ingredient_detector"

SeedRecord(i) ==
    [timestamp |-> 0, prediction |-> i,
     confidence |-> IF i % 2 = 1 THEN 55 ELSE 85, latency |-> 200]

SeedMonitor(n) ==
    [ModelMonitor(DefaultWindowSize) EXCEPT
        !.prediction_history = Put(@, SeededModel, [i \in 1..n |-> SeedRecord(i)]),
        !.confidence_history = Put(@, SeededModel,
                                   [i \in 1..n |-> SeedRecord(i).confidence]),
        !.latency_history = Put(@, SeededModel,
                                [i \in 1..n |-> SeedRecord(i).latency])]

SeedPrometheus(n) ==
    set_model_performance_score(
        set_model_performance_score(PrometheusMetrics, SeededModel, "avg_confidence",
                                    MeanOf(SeedMonitor(n).confidence_history[SeededModel])),
        SeededModel, "avg_latency",
        MeanOf(SeedMonitor(n).latency_history[SeededModel]))

DriftReadings == {[confidence |-> 55, latency |-> 200],
                  [confidence |-> 85, latency |-> 500]}

\* baseline_data of a set_baseline call: nothing supplied, or the values the
\* recipe service supplies
DriftBaselines ==
    {EmptyDict,
     ("confidence_mean" :> 85) @@ ("confidence_std" :> 10)
        @@ ("latency_mean" :> 300) @@ ("latency_std" :> 100)}

\* current_metrics of a quick check
DriftMetrics ==
    {EmptyDict,
     ("confidence" :> 70), ("confidence" :> 72), ("confidence" :> 73),
     ("confidence" :> 75), ("confidence" :> 85), ("confidence" :> 88),
     ("confidence" :> 70) @@ ("latency" :> 200),
     ("confidence" :> 70) @@ ("latency" :> 500),
     ("latency" :> 210)}

InitDrift ==
    /\ users = {} /\ recipes = {} /\ nextOid = 1 /\ now = 0 /\ tokens = {}
    /\ client = [p \in Procs |-> None]
    /\ settings = DefaultSettings
    /\ monitor = SeedMonitor(SeedPredictions)
    /\ prometheus = SeedPrometheus(SeedPredictions)
    /\ ServicesStarted
    /\ pc = [p \in Procs |-> "idle"]
    /\ loc = [p \in Procs |-> Idle]
    /\ resp = [p \in Procs |-> None]

\* the monitor's methods are synchronous: calls never interleave, so one
\* caller makes them all
MonitorCaller == "p1"

NextDrift ==
    \/ RecordPrediction(MonitorCaller, {SeededModel}, DriftReadings, {"ok"},
                        SeedPredictions + MaxNew)
    \/ SetBaseline(MonitorCaller, MonitoredModels, DriftBaselines)
    \/ CheckDrift(MonitorCaller, {SeededModel},
                  {("confidence" :> 70), ("confidence" :> 85)}, {"ok"})
    \/ DetectDrift(MonitorCaller, MonitoredModels, DriftTypes \cup {"prediction"},
                   {"ok"})
    \/ Return(MonitorCaller)

SpecDrift == InitDrift /\ [][NextDrift]_vars

\* the quick check on its own, over more readings and every registry fault
NextQuick ==
    \/ SetBaseline(MonitorCaller, MonitoredModels, DriftBaselines)
    \/ CheckDrift(MonitorCaller, MonitoredModels, DriftMetrics, PromFaults)
    \/ Return(MonitorCaller)

SpecQuick == InitDrift /\ [][NextQuick]_vars

-----------------------------------------------------------------------------
(* Generated recipes: generation, favorites, account deletion *)

MaxRecipes == 2

OpenAIConfidence == 85      \* 0.85, in hundredths
FallbackConfidence == 50    \* 0.5, in hundredths

\* the same filter with the id converted to an ObjectId
OwnedBy_objectid(user_id) == {r \in recipes : r.user_id = ObjectId(user_id)}

\* find({"user_id": user_id}): user_id is stored and queried as a string
OwnedBy(user_id) == {r \in recipes : r.user_id = user_id}

\* find_one({"_id": ObjectId(recipe_id)}) without the owner
FindOwnedRecipe_any(recipe_id, user_id) ==
    {r \in recipes : r._id = ObjectId(recipe_id)}

\* find_one({"_id": ObjectId(recipe_id), "user_id": user_id})
FindOwnedRecipe(recipe_id, user_id) ==
    {r \in OwnedBy(user_id) : r._id = ObjectId(recipe_id)}

OneIngredient == [ingredients |-> <<"rice">>, cooking_time |-> 0, difficulty |-> NoneStr,
                  cuisine_type |-> NoneStr]
MinIngredients == 2
MaxIngredients == 50

GeneratorModel == "openai_recipe_generator"

GeneratorBaseline ==
    ("confidence_mean" :> 85) @@ ("confidence_std" :> 10)
        @@ ("latency_mean" :> 300) @@ ("latency_std" :> 100)

\* RecipeGenerationService.__init__ (lines 32-46): every construction sets the
\* generator's baseline on the shared monitor
RecipeGenerationService(w) == set_baseline(w, GeneratorModel, GeneratorBaseline)

\* POST /recipes/generate (routes/recipes.py 145-177): the call of
\* generate_and_save_recipe passes no username, which the signature requires,
\* so it raises TypeError before the service runs
GenerateRoute(p, presented, requests) ==
    \E token \in presented, request \in requests :
        /\ pc[p] = "idle"
        /\ UNCHANGED <<users, recipes, nextOid, now, tokens, client, settings, prometheus, services>>
        /\ LET current_user == get_current_user(token)
           IN  IF current_user = None
               THEN /\ UNCHANGED monitor
                    /\ Reply(p, Unauthorized("generate", token))
               ELSE IF \/ Len(request.ingredients) < MinIngredients
                       \/ Len(request.ingredients) > MaxIngredients
               THEN /\ UNCHANGED monitor
                    /\ Reply(p, [op |-> "generate", status |-> 422, detail |-> "validation"])
               ELSE /\ monitor' = RecipeGenerationService(World).monitor
                    /\ Reply(p, [op |-> "generate", status |-> 500,
                              detail |-> "An error occurred while generating the recipe",
                              user_id |-> current_user.id, request |-> request])

\* what the chat completion call can do
AIRaises == [kind |-> "raise", content |-> <<>>]
AINoContent == [kind |-> "none", content |-> <<>>]
AIText(content) == [kind |-> "text", content |-> content]

\* generate_and_save_recipe(user_id, username, request) up to the AI call
\* (lines 345-346, 57-82); without a client generate_recipe_openai returns None
GenerateCall(p, requests) ==
    \E user \in users, request \in requests :
        /\ pc[p] = "idle"
        /\ UNCHANGED <<users, recipes, nextOid, now, tokens, client, settings, monitor, prometheus, services>>
        /\ LET call == [t |-> "generate", user_id |-> Str(user._id),
                        username |-> user.username, request |-> request]
           IN  IF ~settings.OPENAI_API_KEY
               THEN Goto(p, "gen_insert",
                         [call EXCEPT !.t = "insert"] @@
                         [recipe |-> generate_recipe_fallback(request),
                          source |-> "fallback", confidence |-> FallbackConfidence,
                          ai |-> "no_key"])
               ELSE Goto(p, "gen_ai", call)

\* generate_recipe_openai from the return of the AI call (lines 99-174) and the
\* choice of source in generate_and_save_recipe (lines 346-356).  The tracking
\* calls after the parse sit in the same try as the AI call; the tracking calls
\* of the except block are not guarded.
OpenAIReturn(p, outcomes, faults) ==
    \E outcome \in outcomes, tracking_raises \in faults, handler_raises \in faults :
        /\ pc[p] = "gen_ai"
        /\ UNCHANGED <<users, recipes, nextOid, now, tokens, client, settings, monitor, prometheus, services>>
        /\ LET call == loc[p]
               parsed == IF outcome.kind = "text"
                         THEN _parse_recipe_response(outcome.content, call.request)
                         ELSE None
               ai == IF parsed # None THEN "recipe" ELSE outcome.kind
               returned == IF parsed # None /\ ~tracking_raises THEN parsed ELSE None
           IN  IF returned # None
               THEN Goto(p, "gen_insert",
                         [call EXCEPT !.t = "insert"] @@
                         [recipe |-> returned, source |-> "openai",
                          confidence |-> OpenAIConfidence, ai |-> ai])
               ELSE IF handler_raises
               THEN Reply(p, [op |-> "generate_service", status |-> "raised",
                              ai |-> ai, inserted |-> FALSE, source |-> NoneStr])
               ELSE Goto(p, "gen_insert",
                         [call EXCEPT !.t = "insert"] @@
                         [recipe |-> generate_recipe_fallback(call.request),
                          source |-> "fallback", confidence |-> FallbackConfidence,
                          ai |-> ai])

\* insert_one(recipe_doc) and the rest of generate_and_save_recipe (lines
\* 358-412); track_database_operation after the insert is not guarded
GenerateInsert(p, faults) ==
    \E tracking_raises \in faults :
        /\ pc[p] = "gen_insert"
        /\ nextOid <= MaxOid + MaxRecipes
        /\ UNCHANGED <<users, now, tokens, client, settings, monitor, prometheus, services>>
        /\ LET call == loc[p]
               recipe_doc == [_id |-> [t |-> "oid", v |-> nextOid],
                              user_id |-> call.user_id,
                              ingredients |-> call.request.ingredients,
                              cuisine_type |-> call.request.cuisine_type,
                              generated_recipe |-> call.recipe,
                              source |-> call.source,
                              confidence_score |-> call.confidence,
                              is_favorite |-> FALSE,
                              ai |-> call.ai,
                              toggles |-> 0, raced |-> FALSE]
           IN  /\ recipes' = recipes \cup {recipe_doc}
               /\ nextOid' = nextOid + 1
               /\ IF tracking_raises
                  THEN Reply(p, [op |-> "generate_service", status |-> "raised",
                                 ai |-> call.ai, inserted |-> TRUE,
                                 source |-> call.source])
                  ELSE Reply(p, [op |-> "generate_service", status |-> "ok",
                                 ai |-> call.ai, inserted |-> TRUE,
                                 source |-> call.source,
                                 id |-> Str(recipe_doc._id), recipe |-> call.recipe,
                                 username |-> call.username])

MaxToggles == 2

\* requests between the find_one and the update_one of a toggle
PendingToggles == {q \in Procs : pc[q] = "tog_write"}

RECURSIVE SumToggles(_)
SumToggles(docs) ==
    IF docs = {} THEN 0
    ELSE LET r == CHOOSE d \in docs : TRUE
         IN  r.toggles + SumToggles(docs \ {r})

\* toggles written or about to be written, over all recipes
TogglesSoFar == SumToggles(recipes) + Cardinality(PendingToggles)

\* PUT /recipes/generated/{recipe_id}/favorite up to the find_one of
\* toggle_favorite (lines 543-551); a malformed id raises inside the try
ToggleRead(p, presented, recipe_ids) ==
    \E token \in presented, recipe_id \in recipe_ids :
        /\ pc[p] = "idle"
        /\ UNCHANGED <<users, recipes, nextOid, now, tokens, client, settings, prometheus, services>>
        /\ LET current_user == get_current_user(token)
               found == IF IsValidOid(recipe_id)
                        THEN FindOwnedRecipe(recipe_id, current_user.id) ELSE {}
           IN  IF current_user = None
               THEN /\ UNCHANGED monitor
                    /\ Reply(p, Unauthorized("toggle", token))
               ELSE /\ monitor' = RecipeGenerationService(World).monitor
                    /\ IF found = {}
                       THEN Reply(p, [op |-> "toggle", status |-> 404,
                              detail |-> "Recipe not found", token |-> token,
                              user_id |-> current_user.id, recipe_id |-> recipe_id])
                       ELSE \E recipe \in found :
                              /\ TogglesSoFar < MaxToggles
                              /\ Goto(p, "tog_write",
                                   [t |-> "toggle", user_id |-> current_user.id,
                                    recipe_id |-> recipe_id, token |-> token,
                                    new_favorite_status |-> ~recipe.is_favorite])

\* a variant that negates the stored flag at write time
WrittenFavoriteStatus_atomic(p, r) == ~r.is_favorite

\* the value written is the negation of the flag as read by find_one
WrittenFavoriteStatus(p, r) == loc[p].new_favorite_status

\* update_one({"_id": ObjectId(recipe_id)}, {"$set": {"is_favorite": ...}})
ToggleWrite(p) ==
    /\ pc[p] = "tog_write"
    /\ UNCHANGED <<users, nextOid, now, tokens, client, settings, monitor, prometheus, services>>
    /\ recipes' = {IF r._id = ObjectId(loc[p].recipe_id)
                   THEN [r EXCEPT !.is_favorite = WrittenFavoriteStatus(p, r),
                                  !.toggles = @ + 1,
                                  !.raced = @ \/ r.is_favorite = loc[p].new_favorite_status]
                   ELSE r : r \in recipes}
    /\ Reply(p, [op |-> "toggle", status |-> 200,
                 detail |-> "Favorite status toggled successfully",
                 user_id |-> loc[p].user_id, recipe_id |-> loc[p].recipe_id])

\* DELETE /users/account: the get_current_user dependency
DeleteResolve(p, presented) ==
    \E token \in presented :
        /\ pc[p] = "idle"
        /\ UNCHANGED <<users, recipes, nextOid, now, tokens, client, settings, monitor, prometheus, services>>
        /\ LET current_user == get_current_user(token)
           IN  IF current_user = None
               THEN Reply(p, Unauthorized("delete", token))
               ELSE Goto(p, "del_recipes",
                         [t |-> "delete", current_user |-> current_user,
                          token |-> token])

\* delete_many({"user_id": current_user.id}) (lines 228-230)
DeleteRecipes(p) ==
    /\ pc[p] = "del_recipes"
    /\ UNCHANGED <<users, nextOid, now, tokens, client, settings, monitor, prometheus, services>>
    /\ LET matched == OwnedBy(loc[p].current_user.id)
       IN  /\ recipes' = recipes \ matched
           /\ Goto(p, "del_user",
                   [t |-> "delete", current_user |-> loc[p].current_user,
                    owned |-> {r._id : r \in {d \in recipes :
                                                d.user_id = loc[p].current_user.id}}])

\* delete_one({"_id": ObjectId(current_user.id)}) and the response (lines 233-246)
DeleteUser(p) ==
    /\ pc[p] = "del_user"
    /\ UNCHANGED <<recipes, nextOid, now, tokens, client, settings, monitor, prometheus, services>>
    /\ LET matched == {u \in users : u._id = ObjectId(loc[p].current_user.id)}
       IN  /\ users' = users \ matched
           /\ IF matched = {}
              THEN Reply(p, [op |-> "delete", status |-> 404, detail |-> "User not found"])
              ELSE Reply(p, [op |-> "delete", status |-> 200,
                             detail |-> "Account successfully deleted",
                             user_id |-> loc[p].current_user.id,
                             owned |-> loc[p].owned])

\* two accounts registered and logged in at time 0
SeedUser(oid, username, email) ==
    [NewUserDoc(oid, [username |-> username, email |-> email, password |-> pwStrongA])
        EXCEPT !.last_login = 0]

SeedUsers == {SeedUser(1, "alice", "a@x.io"), SeedUser(2, "bob", "b@x.io")}

InitRecipe(keys) ==
    /\ users = SeedUsers
    /\ recipes = {}
    /\ nextOid = MaxOid + 1
    /\ now = 0
    /\ tokens = {create_access_token([sub |-> u.email, user_id |-> Str(u._id)])
                 : u \in SeedUsers}
    /\ client = [p \in Procs |-> None]
    /\ settings \in {[DefaultSettings EXCEPT !.OPENAI_API_KEY = key] : key \in keys}
    /\ monitor = ModelMonitor(DefaultWindowSize)
    /\ prometheus = PrometheusMetrics
    /\ ServicesStarted
    /\ pc = [p \in Procs |-> "idle"]
    /\ loc = [p \in Procs |-> Idle]
    /\ resp = [p \in Procs |-> None]

RecipeIdInputs ==
    {[t |-> "str", v |-> i] : i \in (MaxOid + 1)..(MaxOid + MaxRecipes)}
        \cup {[t |-> "str", v |-> -1]}

\* generation with every AI outcome and failing tracking calls
NextGenerate ==
    \E p \in Procs :
        \/ GenerateRoute(p, tokens, {PlainRequest, OneIngredient})
        \/ GenerateCall(p, {PlainRequest})
        \/ OpenAIReturn(p, {AIRaises, AINoContent, AIText(FormattedContent),
                            AIText(SloppyContent)}, BOOLEAN)
        \/ GenerateInsert(p, BOOLEAN)
        \/ Return(p)

SpecGenerate == InitRecipe(BOOLEAN) /\ [][NextGenerate]_vars

\* recipes of both users, favorites and account deletion
NextRecipe ==
    \E p \in Procs :
        \/ GenerateCall(p, {PlainRequest})
        \/ OpenAIReturn(p, {AIText(FormattedContent)}, {FALSE})
        \/ GenerateInsert(p, {FALSE})
        \/ ToggleRead(p, tokens, RecipeIdInputs)
        \/ ToggleWrite(p)
        \/ DeleteResolve(p, tokens)
        \/ DeleteRecipes(p)
        \/ DeleteUser(p)
        \/ Return(p)

SpecRecipe == InitRecipe({TRUE}) /\ [][NextRecipe]_vars

-----------------------------------------------------------------------------
(* services/ingredient_service.py: tiered ingredient detection *)

\* IngredientDetectionService.__init__ (lines 59-77)
use_local_models == settings.USE_LOCAL_MODELS
local_model == settings.USE_LOCAL_MODELS /\ settings.CLIP_AVAILABLE
vision_client == settings.OPENAI_API_KEY

LocalThreshold == 40    \* 0.40, in hundredths
VisionConfidence == 85  \* 0.85, in hundredths

\* str.strip() and str.lower() on the ingredient names in use
StripName(name) == CASE name = " onions" -> "onions" [] name = " " -> ""
                     [] name = " Onion " -> "Onion"
                     [] OTHER -> name

\* a variant that compares the names as written
LowerName_as_written(name) == name

LowerName(name) == CASE name = "Tomatoes" -> "tomatoes" [] name = "Tomato" -> "tomato"
                     [] name = "Onion" -> "onion" [] name = " Onion " -> " onion "
                     [] name = "Italian" -> "italian"
                     [] OTHER -> name

\* utils.validators.validate_ingredients
RECURSIVE CleanIngredients(_, _, _)
CleanIngredients(ingredients, cleaned, seen) ==
    IF ingredients = <<>> THEN cleaned
    ELSE LET cleaned_ingredient == StripName(Head(ingredients))
             ingredient_lower == LowerName(cleaned_ingredient)
         IN  IF cleaned_ingredient # "" /\ ingredient_lower \notin seen
             THEN CleanIngredients(Tail(ingredients), Append(cleaned, cleaned_ingredient),
                                   seen \cup {ingredient_lower})
             ELSE CleanIngredients(Tail(ingredients), cleaned, seen)

validate_ingredients(ingredients) == CleanIngredients(ingredients, <<>>, {})

\* round((a + b) / 2, 2) in hundredths; the odd sums drawn here (0.20 + 0.85)
\* round up in binary floating point
MeanConfidence(a, b) == (a + b + 1) \div 2

\* IngredientDetectionService.merge_detection_results
merge_detection_results(local_results, openai_results) ==
    LET unique_ingredients ==
            validate_ingredients(local_results.ingredients \o openai_results.ingredients)
        both == local_results.confidence > 0 /\ openai_results.confidence > 0
    IN  [ingredients |-> unique_ingredients,
         confidence |-> IF both THEN MeanConfidence(local_results.confidence,
                                                    openai_results.confidence)
                        ELSE IF openai_results.confidence > 0
                        THEN openai_results.confidence
                        ELSE IF local_results.confidence > 0
                        THEN local_results.confidence
                        ELSE 0,
         source |-> IF both THEN "hybrid"
                    ELSE IF openai_results.confidence > 0 THEN "openai"
                    ELSE IF local_results.confidence > 0 THEN "local"
                    ELSE "none",
         local_detected |-> Len(local_results.ingredients),
         openai_detected |-> Len(openai_results.ingredients),
         total_unique |-> Len(unique_ingredients)]

NoDetection == [ingredients |-> <<>>, confidence |-> 0]

\* what detect_ingredients_local can return: nothing above the threshold (or an
\* exception, lines 222-225), or ingredients with their average confidence
LocalOutcomes ==
    {NoDetection,
     [ingredients |-> <<"tomatoes">>, confidence |-> 20],
     [ingredients |-> <<"rice", " onions">>, confidence |-> 40],
     [ingredients |-> <<"tomatoes", "onions", "garlic">>, confidence |-> 55]}

\* what detect_ingredients_openai can return: ([], 0.0) when the call raises,
\* else the parsed names with confidence 0.85
VisionOutcomes ==
    {NoDetection,
     [ingredients |-> <<>>, confidence |-> VisionConfidence],
     [ingredients |-> <<"Tomatoes", "basil">>, confidence |-> VisionConfidence]}

\* the threshold test with a strict comparison
LocalIsGood_strict(local_results) ==
    local_results.confidence > LocalThreshold /\ Len(local_results.ingredients) > 0

\* the local result is good enough to skip the vision tier (line 448)
LocalIsGood(local_results) ==
    local_results.confidence >= LocalThreshold /\ Len(local_results.ingredients) > 0

\* the calls of a telemetry block that can raise: the metrics call, the monitor
\* call, the experiment-tracking call
TelemetryFaults == {"ok", "metrics", "monitor", "mlflow"}

\* the telemetry block runs (lines 226, 335, 490) and one of its calls raises
TelemetryRaises(fault) == settings.PROMETHEUS_ENABLED /\ fault # "ok"

\* a variant without the except clauses: what a telemetry call raises leaves
\* the detection call
Escapes_uncaught(fault) == TelemetryRaises(fault)

\* whether an exception of the telemetry block leaves the detection call: the
\* except clauses at lines 257, 374 and 518 catch it
Escapes(fault) == FALSE

\* wall-clock times measured by the tiers and by the pipeline, in hundredths
TierTime == 150
PipelineTimes == {200, 500}

\* STEP 2 of detect_ingredients_local (226-259) and detect_ingredients_openai
\* (335-376): record_prediction is reached unless an earlier call raised
TierTelemetry(w, model_name, results, fault) ==
    IF settings.PROMETHEUS_ENABLED /\ fault \in {"ok", "mlflow"}
    THEN record_prediction(w, model_name, results.ingredients, results.confidence,
                           TierTime, "ok")
    ELSE w

\* the model name the pipeline reports under (lines 494, 505)
PipelineModel == "ingredient_detection_pipeline"

\* the pipeline block of detect_ingredients (490-520): the quick drift check
\* and the two keys it adds to the merged result
PipelineTelemetry(w, merged_results, pipeline_time, fault) ==
    IF settings.PROMETHEUS_ENABLED /\ settings.ENABLE_DRIFT_DETECTION /\ fault = "ok"
    THEN LET d == check_drift(w, PipelineModel,
                              ("confidence" :> merged_results.confidence)
                                  @@ ("latency" :> pipeline_time), "ok")
         IN  [w |-> d.w,
              result |-> IF d.result.drift_detected
                         THEN [drift_detected |-> TRUE,
                               drift_score |-> d.result.drift_score] @@ merged_results
                         ELSE merged_results]
    ELSE [w |-> w, result |-> merged_results]

NoIngredientsMessage == "No ingredients detected. Try: 1) Better lighting, 2) Close-up photos, 3) Clear individual ingredients"
NoModelsMessage == "No AI models configured. Please set USE_LOCAL_MODELS=true or add OPENAI_API_KEY"

\* the message key added to an empty result (lines 523-525)
WithMessage(result) ==
    IF result.total_unique = 0
    THEN [message |-> NoIngredientsMessage] @@ result
    ELSE result

DetectionRaised(p, tiers, fault) ==
    Reply(p, [op |-> "detect", status |-> 500, tiers |-> tiers, raised |-> fault])

\* detect_ingredients from the merge to its return (lines 485-530); w is the
\* telemetry state the tiers have left
DetectReply(p, tiers, local_results, openai_results, w, tier_raised) ==
    \E pipeline_time \in PipelineTimes, fault \in TelemetryFaults \ {"mlflow"} :
        LET merged_results == merge_detection_results(local_results, openai_results)
            t == PipelineTelemetry(w, merged_results, pipeline_time, fault)
        IN  IF TelemetryRaises(fault) /\ Escapes(fault)
            THEN /\ monitor' = w.monitor
                 /\ prometheus' = w.prometheus
                 /\ DetectionRaised(p, tiers, fault)
            ELSE /\ monitor' = t.w.monitor
                 /\ prometheus' = t.w.prometheus
                 /\ Reply(p, [op |-> "detect", status |-> 200, tiers |-> tiers,
                              local_results |-> local_results,
                              openai_results |-> openai_results,
                              merged_results |-> merged_results,
                              telemetry_raised |->
                                  tier_raised \/ TelemetryRaises(fault),
                              result |-> WithMessage(t.result)])

\* predictions recorded so far for the two tiers; with the drift events
\* counted, what the telemetry of earlier detections has left
PredictionsSoFar ==
    Len(Get(monitor.prediction_history, "clip_ingredient_detector", <<>>))
        + Len(Get(monitor.prediction_history, "openai_vision", <<>>))

\* detect_ingredients up to the first tier it awaits (lines 437-485)
DetectStart(p) ==
    /\ pc[p] = "idle"
    /\ PredictionsSoFar + EventsSoFar < MaxDetections
    /\ UNCHANGED <<users, recipes, nextOid, now, tokens, client, settings, monitor, prometheus, services>>
    /\ IF local_model /\ use_local_models
       THEN Goto(p, "det_local", [t |-> "detect", tiers |-> <<"local">>])
       ELSE IF vision_client
       THEN Goto(p, "det_vision", [t |-> "detect", tiers |-> <<"vision">>,
                                   local_results |-> NoDetection,
                                   tier_raised |-> FALSE])
       ELSE Reply(p, [op |-> "detect", status |-> 200, tiers |-> <<>>,
                      local_results |-> NoDetection, openai_results |-> NoDetection,
                      merged_results |-> merge_detection_results(NoDetection, NoDetection),
                      telemetry_raised |-> FALSE,
                      result |-> [ingredients |-> <<>>, confidence |-> 0,
                                  source |-> "none", local_detected |-> 0,
                                  openai_detected |-> 0, total_unique |-> 0,
                                  message |-> NoModelsMessage]])

\* the local tier has returned: use it, or go on to the vision tier (lines
\* 441-464); detection_failed is the except branch of STEP 1 (lines 220-223),
\* which returns before the telemetry block
LocalReturn(p) ==
    \E local_results \in LocalOutcomes, detection_failed \in BOOLEAN,
       fault \in TelemetryFaults :
        /\ pc[p] = "det_local"
        /\ detection_failed => (local_results = NoDetection /\ fault = "ok")
        /\ UNCHANGED <<users, recipes, nextOid, now, tokens, client, settings, services>>
        /\ LET w == IF detection_failed THEN World
                    ELSE TierTelemetry(World, "clip_ingredient_detector",
                                       local_results, fault)
           IN  IF TelemetryRaises(fault) /\ Escapes(fault)
               THEN /\ monitor' = monitor
                    /\ prometheus' = prometheus
                    /\ DetectionRaised(p, loc[p].tiers, fault)
               ELSE IF LocalIsGood(local_results)
               THEN DetectReply(p, loc[p].tiers, local_results, NoDetection, w,
                                TelemetryRaises(fault))
               ELSE IF vision_client
               THEN /\ monitor' = w.monitor
                    /\ prometheus' = w.prometheus
                    /\ Goto(p, "det_vision", [t |-> "detect",
                                              tiers |-> Append(loc[p].tiers, "vision"),
                                              local_results |-> local_results,
                                              tier_raised |-> TelemetryRaises(fault)])
               ELSE DetectReply(p, loc[p].tiers, local_results, NoDetection, w,
                                TelemetryRaises(fault))

\* the vision tier has returned; merge (lines 459, 469, 486); detection_failed
\* is the except branch of its STEP 1 (lines 329-332)
VisionReturn(p) ==
    \E openai_results \in VisionOutcomes, fault \in TelemetryFaults :
        /\ pc[p] = "det_vision"
        /\ (openai_results = NoDetection) => fault = "ok"
        /\ UNCHANGED <<users, recipes, nextOid, now, tokens, client, settings, services>>
        /\ LET w == IF openai_results = NoDetection THEN World
                    ELSE TierTelemetry(World, "openai_vision", openai_results, fault)
           IN  IF TelemetryRaises(fault) /\ Escapes(fault)
               THEN /\ monitor' = monitor
                    /\ prometheus' = prometheus
                    /\ DetectionRaised(p, loc[p].tiers, fault)
               ELSE DetectReply(p, loc[p].tiers, loc[p].local_results, openai_results,
                                w, loc[p].tier_raised \/ TelemetryRaises(fault))

InitDetect ==
    /\ users = {} /\ recipes = {} /\ nextOid = 1 /\ now = 0 /\ tokens = {}
    /\ client = [p \in Procs |-> None]
    /\ settings \in [OPENAI_API_KEY : BOOLEAN, USE_LOCAL_MODELS : BOOLEAN,
                     CLIP_AVAILABLE : BOOLEAN, PROMETHEUS_ENABLED : BOOLEAN,
                     ENABLE_DRIFT_DETECTION : BOOLEAN]
    /\ monitor = ModelMonitor(DefaultWindowSize)
    /\ prometheus = PrometheusMetrics
    /\ ServicesStarted
    /\ pc = [p \in Procs |-> "idle"]
    /\ loc = [p \in Procs |-> Idle]
    /\ resp = [p \in Procs |-> None]

\* detections, and the historical drift check on the pipeline's model name
NextDetect ==
    \/ \E p \in Procs : DetectStart(p)
    \/ \E p \in Procs : LocalReturn(p)
    \/ \E p \in Procs : VisionReturn(p)
    \/ \E p \in Procs : Return(p)
    \/ DetectDrift(MonitorCaller, {PipelineModel}, {"confidence"}, {"ok"})

SpecDetect == InitDetect /\ [][NextDetect]_vars

-----------------------------------------------------------------------------
(* Claims on accounts and sessions *)

\* C1: after any interleaving of register and update-profile requests, no two
\* documents of `users` share an email and no two share a username.
C1_UniqueEmailAndUsername ==
    \A u1 \in users : \A u2 \in users :
        u1 # u2 => u1.email # u2.email /\ u1.username # u2.username

\* two registrations passed the existence check together and the second insert
\* was refused by the index
C1_Witness ==
    \E p \in Procs : \E q \in Procs :
        /\ p # q
        /\ pc[p] = "done" /\ resp[p].op = "register" /\ resp[p].status = 500
        /\ pc[q] \in {"reg_reread", "done"}
        /\ users # {}

\* C2: a client that registered and then logs in with the same email and
\* password gets a token pair; the access token decodes to the registered id
\* and email with type access, the refresh token has type refresh.
C2_RegisterThenLogin ==
    \A p \in Procs :
        ( /\ pc[p] = "done" /\ resp[p].op = "login"
          /\ client[p] # None
          /\ resp[p].email = client[p].email
          /\ resp[p].password = client[p].password )
        => /\ resp[p].status = 200
           /\ resp[p].at = now =>
                LET access == decode_token(resp[p].access_token)
                    refresh == decode_token(resp[p].refresh_token)
                IN  /\ access # None
                    /\ access.user_id = client[p].id
                    /\ access.sub = client[p].email
                    /\ access.type = "access"
                    /\ refresh # None
                    /\ refresh.type = "refresh"

C2_Witness ==
    \E p \in Procs :
        /\ pc[p] = "done" /\ resp[p].op = "login" /\ resp[p].status = 200
        /\ client[p] # None
        /\ resp[p].email = client[p].email
        /\ resp[p].password = client[p].password
        /\ resp[p].at = now

\* C3: a refresh token presented as the bearer credential is rejected as
\* unauthorized; only a token of type access resolves to a user.
C3_RefreshTokenRejected ==
    \A p \in Procs :
        (pc[p] = "done" /\ resp[p].op = "me")
        => /\ resp[p].token.type = "refresh" => resp[p].status = 401
           /\ resp[p].status = 200 => resp[p].token.type = "access"

-----------------------------------------------------------------------------
(* Claims on recipe text *)

\* a numbered step as the prompt asks for it: digit, dot, text
WellFormedStep(line) ==
    /\ Len(line) >= 3
    /\ line[1] \in DigitTokens
    /\ line[2] = "."
    /\ Strip(SubSeq(line, 3, Len(line))) # <<>>

StepText(line) == Strip(SubSeq(line, 3, Len(line)))

\* a STEPS: header followed by exactly five well-formed numbered steps
FiveValidSteps(content) ==
    /\ Len(content) = 6
    /\ content[1] = LineSteps
    /\ \A i \in 2..6 : WellFormedStep(content[i])

\* C8: every recipe produced has at least 3 steps, whatever the AI text parses
\* to; 5 valid steps are kept verbatim and in order; the fallback recipe has at
\* least 3 steps.
C8_AtLeastThreeSteps ==
    \A p \in Procs :
        (pc[p] = "done" /\ resp[p].op \in {"parse", "fallback"})
        => /\ resp[p].recipe # None
           /\ Len(resp[p].recipe.steps) >= 3
           /\ (resp[p].op = "parse" /\ FiveValidSteps(resp[p].content))
              => resp[p].recipe.steps = [i \in 1..5 |-> StepText(resp[p].content[i + 1])]

\* a text with five valid steps was parsed and all five were kept
C8_Witness ==
    \E p \in Procs :
        /\ pc[p] = "done" /\ resp[p].op = "parse"
        /\ FiveValidSteps(resp[p].content)
        /\ resp[p].content[2] # resp[p].content[3]
        /\ Len(resp[p].recipe.steps) = 5

-----------------------------------------------------------------------------
(* Claims on generated recipes *)

\* C4: deleting an account removes every generated recipe whose user_id is that
\* user (those the delete_many finds) and the user document; afterwards a
\* lookup of the user or of any of those recipes finds nothing, and documents of
\* other users are unchanged.
C4_DeleteAccountRemovesOwn ==
    /\ [](\A p \in Procs :
            (pc[p] = "done" /\ resp[p].op = "delete" /\ resp[p].status = 200)
            => /\ get_user_by_id(resp[p].user_id) = None
               /\ \A recipe_id \in resp[p].owned :
                     /\ FindOwnedRecipe(Str(recipe_id), resp[p].user_id) = {}
                     /\ \A r \in recipes : r._id # recipe_id)
    /\ [][\A p \in Procs :
            (pc[p] \in {"del_recipes", "del_user"} /\ pc'[p] # pc[p])
            => LET user_id == loc[p].current_user.id
               IN  /\ {r \in recipes : r.user_id # user_id}
                        = {r \in recipes' : r.user_id # user_id}
                   /\ {u \in users : Str(u._id) # user_id}
                        = {u \in users' : Str(u._id) # user_id}
                   /\ pc[p] = "del_recipes" => \A r \in recipes' : r.user_id # user_id
                   /\ pc[p] = "del_user" => \A u \in users' : Str(u._id) # user_id]_vars

\* an account with a recipe was deleted while the other user's recipe stayed
C4_Witness ==
    \E p \in Procs :
        /\ pc[p] = "done" /\ resp[p].op = "delete" /\ resp[p].status = 200
        /\ resp[p].owned # {}
        /\ \E r \in recipes : r.user_id # resp[p].user_id
        /\ \E u \in users : Str(u._id) # resp[p].user_id

\* C5: toggles by the owner that do not overlap alternate the flag (the first
\* sets it, the second clears it); a toggle of another user's recipe reports
\* not-found, and only the owner's toggle ever changes is_favorite.
C5_ToggleFavorite ==
    /\ [](/\ \A r \in recipes : ~r.raced => r.is_favorite = (r.toggles % 2 = 1)
          /\ \A p \in Procs :
                (pc[p] = "done" /\ resp[p].op = "toggle" /\ resp[p].status # 401
                 /\ \E r \in recipes : /\ r._id = ObjectId(resp[p].recipe_id)
                                       /\ r.user_id # resp[p].user_id)
                => resp[p].status = 404)
    /\ [][\A r \in recipes : \A r2 \in recipes' :
            (r._id = r2._id /\ r.is_favorite # r2.is_favorite)
            => \E p \in Procs : /\ pc[p] = "tog_write" /\ pc'[p] = "done"
                                /\ loc[p].user_id = r.user_id]_vars

\* the owner toggled twice in sequence while the other user was refused
C5_Witness ==
    /\ \E r \in recipes : r.toggles = 2 /\ ~r.raced /\ ~r.is_favorite
    /\ \E p \in Procs :
          /\ pc[p] = "done" /\ resp[p].op = "toggle" /\ resp[p].status = 404
          /\ \E r \in recipes : /\ r._id = ObjectId(resp[p].recipe_id)
                                /\ r.user_id # resp[p].user_id
                                /\ r.toggles = 2

\* C6: POST /recipes/generate by an authenticated user with a valid body always
\* answers 201, whatever the AI call does.
C6_GenerateAlwaysCreated ==
    \A p \in Procs :
        (pc[p] = "done" /\ resp[p].op = "generate" /\ resp[p].status \notin {401, 422})
        => resp[p].status = 201

\* C7: a written document is ("openai", 0.85) exactly when the AI path returned
\* a recipe and ("fallback", 0.5) exactly when the AI call raised, returned no
\* usable content, or no key is configured.
C7_SourceReflectsPath ==
    \A r \in recipes :
        /\ (r.source = "openai" /\ r.confidence_score = OpenAIConfidence)
              <=> r.ai = "recipe"
        /\ (r.source = "fallback" /\ r.confidence_score = FallbackConfidence)
              <=> r.ai \in {"raise", "none", "no_key"}

\* C10: a tracking call that raises after the AI text was parsed changes nothing:
\* the AI recipe is persisted with source "openai", and the call does not fail
\* once the document is inserted.
C10_TrackingFailureHarmless ==
    \A p \in Procs :
        (pc[p] = "done" /\ resp[p].op = "generate_service")
        => /\ resp[p].ai = "recipe" => (resp[p].status = "ok" /\ resp[p].source = "openai")
           /\ resp[p].inserted => resp[p].status = "ok"

-----------------------------------------------------------------------------
(* Claims on ingredient detection *)

Detected(p) == pc[p] = "done" /\ resp[p].op = "detect"

\* C9 as stated: with the local model enabled and available the local tier runs
\* first; the vision tier runs iff (local confidence < 0.40 or nothing found)
\* and a vision client is configured; 0.55 with 3 ingredients gives "local"
\* without the vision tier; 0.20 with a key runs both and gives "hybrid"; 0.20
\* without a key gives "local" with the local result as-is.
C9_TierPolicyAsStated ==
    \A p \in Procs :
        (Detected(p) /\ local_model)
        => LET r == resp[p]
               vision_ran == \E i \in 1..Len(r.tiers) : r.tiers[i] = "vision"
           IN  /\ r.tiers[1] = "local"
               /\ vision_ran <=> ( /\ \/ r.local_results.confidence < LocalThreshold
                                      \/ r.local_results.ingredients = <<>>
                                   /\ vision_client )
               /\ (r.local_results.confidence = 55 /\ Len(r.local_results.ingredients) = 3)
                  => (r.result.source = "local" /\ ~vision_ran)
               /\ (r.local_results.confidence = 20 /\ vision_client)
                  => (r.tiers = <<"local", "vision">> /\ r.result.source = "hybrid")
               /\ (r.local_results.confidence = 20 /\ ~vision_client)
                  => /\ r.result.source = "local"
                     /\ r.result.confidence = 20
                     /\ r.result.ingredients = r.local_results.ingredients

\* C9, amended: as above, except that with local confidence 0.20 and a key the
\* source is "hybrid" when the vision call returns a result and "local" when
\* the vision call fails.
C9_TierPolicy ==
    \A p \in Procs :
        (Detected(p) /\ local_model)
        => LET r == resp[p]
               vision_ran == \E i \in 1..Len(r.tiers) : r.tiers[i] = "vision"
           IN  /\ r.tiers[1] = "local"
               /\ vision_ran <=> ( /\ \/ r.local_results.confidence < LocalThreshold
                                      \/ r.local_results.ingredients = <<>>
                                   /\ vision_client )
               /\ (r.local_results.confidence = 55 /\ Len(r.local_results.ingredients) = 3)
                  => (r.result.source = "local" /\ ~vision_ran)
               /\ (r.local_results.confidence = 20 /\ vision_client)
                  => /\ r.tiers = <<"local", "vision">>
                     /\ r.openai_results.confidence > 0 => r.result.source = "hybrid"
                     /\ r.openai_results.confidence = 0 => r.result.source = "local"
               /\ (r.local_results.confidence = 20 /\ ~vision_client)
                  => /\ r.result.source = "local"
                     /\ r.result.confidence = 20
                     /\ r.result.ingredients = r.local_results.ingredients

\* local confidence 0.20 with a key: both tiers ran, the vision call failed
C9_Witness ==
    \E p \in Procs :
        /\ Detected(p) /\ local_model /\ vision_client
        /\ resp[p].local_results.confidence = 20
        /\ resp[p].tiers = <<"local", "vision">>
        /\ resp[p].openai_results.confidence = 0
        /\ resp[p].result.source = "local"

\* ---------------------------------------------------------------------------
\* C12: tokens of a deleted account

\* the token still decodes (signature and expiry valid) but its user is gone
TokenOfDeletedUser(token) ==
    /\ token \in tokens
    /\ decode_token(token) # None
    /\ decode_token(token).user_id \in {Str(u._id) : u \in SeedUsers}
    /\ get_user_by_id(decode_token(token).user_id) = None

\* the route of the request process p is in, and the token it presented
RequestOp(p) == IF pc[p] = "done" THEN resp[p].op ELSE loc[p].t

PresentedToken(p) == IF pc[p] = "done" THEN resp[p].token ELSE loc[p].token

\* C12: a request to an authenticated route (favorite toggle, account delete)
\* that presents a still-valid token of an already deleted account is answered
\* 401 "Could not validate credentials" and goes no further.
C12_DeletedUserTokenRejected ==
    [][\A p \in Procs :
          (/\ pc[p] = "idle" /\ pc'[p] # "idle"
           /\ RequestOp(p)' \in {"toggle", "delete"}
           /\ TokenOfDeletedUser(PresentedToken(p)'))
          => /\ pc'[p] = "done"
             /\ resp'[p] = Unauthorized(resp'[p].op, PresentedToken(p)')]_vars

\* a toggle and an account delete were both refused with the token of the
\* deleted account
C12_Witness ==
    \E p, q \in Procs :
        /\ pc[p] = "done" /\ resp[p].op = "toggle" /\ resp[p].status = 401
        /\ pc[q] = "done" /\ resp[q].op = "delete" /\ resp[q].status = 401
        /\ TokenOfDeletedUser(resp[p].token)
        /\ resp[q].token = resp[p].token

\* ---------------------------------------------------------------------------
\* C13: concurrent favorite toggles

\* two toggle requests of one recipe that have both read and not yet written
BothRead(p, q) ==
    /\ p # q
    /\ pc[p] = "tog_write" /\ pc[q] = "tog_write"
    /\ loc[p].recipe_id = loc[q].recipe_id

\* C13: two toggles of a recipe (initially not a favorite) that have both read
\* before any write intend the same value, the negation of the initial one,
\* and after two toggles the flag is negated exactly when the second write
\* used a stale read; two toggles one after the other restore the initial
\* value.
C13_ToggleRace ==
    /\ \A p, q \in Procs :
          BothRead(p, q)
          => \A r \in recipes :
                (r._id = ObjectId(loc[p].recipe_id) /\ r.toggles = 0)
                => (loc[p].new_favorite_status /\ loc[q].new_favorite_status)
    /\ \A r \in recipes :
          r.toggles = 2 => (r.is_favorite <=> r.raced)

\* both requests read before either wrote, and the flag ended negated
C13_Witness ==
    \E r \in recipes :
        /\ r.toggles = 2 /\ r.raced /\ r.is_favorite
        /\ \A p \in Procs : /\ pc[p] = "done" /\ resp[p].op = "toggle"
                            /\ resp[p].status = 200
                            /\ resp[p].user_id = r.user_id
                            /\ ObjectId(resp[p].recipe_id) = r._id

\* the same two toggles one after the other ended on the initial value
C13_WitnessSequential ==
    \E r \in recipes :
        /\ r.toggles = 2 /\ ~r.raced /\ ~r.is_favorite
        /\ \A p \in Procs : /\ pc[p] = "done" /\ resp[p].op = "toggle"
                            /\ resp[p].status = 200
                            /\ resp[p].user_id = r.user_id

\* ---------------------------------------------------------------------------
\* C14: reasons of a refused registration

EmailHeld(email) == \E u \in users : u.email = email

UsernameHeld(username) == \E u \in users : u.username = username

\* the registration payload of the request process p is in
RegisterPayload(p) == IF pc[p] = "done" THEN resp[p].user_data ELSE loc[p].user_data

C15_OptionalAuthServes ==
    [][\A p \in Procs :
          (pc[p] = "idle" /\ pc'[p] = "done" /\ resp'[p].op = "static")
          => LET credentials == resp'[p].credentials
             IN  (credentials = None \/ get_current_user(credentials) = None)
                 => /\ resp'[p].status = 200
                    /\ resp'[p].current_user = None]_vars

\* what the code does: a token that fails resolution is served with "no user",
\* a resolving token with its user, and a request without credentials is
\* refused by the bearer scheme
C15_OptionalAuthAsBuilt ==
    [][\A p \in Procs :
          (pc[p] = "idle" /\ pc'[p] = "done" /\ resp'[p].op = "static")
          => LET credentials == resp'[p].credentials
             IN  IF credentials = None
                 THEN resp'[p].status \in BearerRejections
                 ELSE /\ resp'[p].status = 200
                      /\ resp'[p].current_user = get_current_user(credentials)]_vars

\* a request without credentials was refused while one with a tampered token
\* was served anonymously
C15_Witness ==
    \E p, q \in Procs :
        /\ pc[p] = "done" /\ resp[p].op = "static"
        /\ resp[p].credentials = None /\ resp[p].status \in BearerRejections
        /\ pc[q] = "done" /\ resp[q].op = "static"
        /\ resp[q].credentials # None /\ resp[q].status = 200
        /\ resp[q].current_user = None

\* ---------------------------------------------------------------------------
\* C16: the "username taken" check of PUT /users/profile

\* the step of process p that answers the "taken by another user" query
UsernameChecked(p) ==
    /\ pc[p] = "upd_check" /\ pc'[p] # "upd_check"
    /\ loc[p].update_data.username # NoneStr

RejectedAsTaken(p) ==
    /\ pc[p] = "done" /\ resp[p].op = "update" /\ resp[p].status = 400
    /\ resp[p].detail = "Username already taken"

\* C16: an update with a username is rejected as "Username already taken"
\* exactly when an account other than the caller's holds that username; the
\* caller's own current username is not rejected.
C16_TakenOnlyByOthers ==
    [][\A p \in Procs :
          UsernameChecked(p)
          => (RejectedAsTaken(p)'
              <=> \E u \in users : /\ u.username = loc[p].update_data.username
                                   /\ Str(u._id) # loc[p].current_user.id)]_vars

\* what the code does: the username is rejected whenever any account holds it,
\* the caller's own included
C16_TakenByAnyone ==
    [][\A p \in Procs :
          UsernameChecked(p)
          => (RejectedAsTaken(p)'
              <=> \E u \in users : u.username = loc[p].update_data.username)]_vars

\* a caller was refused their own current username
C16_Witness ==
    \E p \in Procs :
        /\ RejectedAsTaken(p)
        /\ \E u \in users : /\ Str(u._id) = resp[p].caller
                            /\ u.username = resp[p].username
        /\ \A u \in users : u.username = resp[p].username => Str(u._id) = resp[p].caller

-----------------------------------------------------------------------------
(* Claims on the monitor *)

\* the three windows of a model
Windows(m, model_name) ==
    [predictions |-> Get(m.prediction_history, model_name, <<>>),
     confidences |-> Get(m.confidence_history, model_name, <<>>),
     latencies |-> Get(m.latency_history, model_name, <<>>)]

Min(a, b) == IF a <= b THEN a ELSE b

\* the window holds the records numbered total-n+1 .. total, oldest first
HoldsMostRecent(model_name) ==
    LET win == Windows(monitor, model_name)
        n == Len(win.predictions)
        total == NextSerial(model_name) - 1
    IN  /\ n = Min(total, monitor.window_size)
        /\ Len(win.confidences) = n /\ Len(win.latencies) = n
        /\ \A i \in 1..n :
              /\ win.predictions[i].prediction = total - n + i
              /\ win.confidences[i] = win.predictions[i].confidence
              /\ win.latencies[i] = win.predictions[i].latency

\* the step in which process p returns from a record_prediction call
Recorded(p) ==
    /\ pc[p] = "idle" /\ pc'[p] = "done" /\ resp'[p].op = "record_prediction"

\* C18: every window holds at most window_size entries, namely the most
\* recently recorded ones in recording order; a record_prediction call appends
\* its reading to the model's three windows, dropping exactly the oldest entry
\* of a full window, and leaves the windows of every other model unchanged.
C18_BoundedWindows ==
    /\ [](\A model_name \in MonitoredModels :
             /\ Len(Windows(monitor, model_name).predictions) <= monitor.window_size
             /\ HoldsMostRecent(model_name))
    /\ [][\A p \in Procs :
            Recorded(p)
            => LET r == resp'[p]
                   old == Windows(monitor, r.model_name)
                   new == Windows(monitor', r.model_name)
                   kept(w) == IF Len(w) = monitor.window_size THEN Tail(w) ELSE w
               IN  /\ new.confidences = Append(kept(old.confidences), r.confidence)
                   /\ new.latencies = Append(kept(old.latencies), r.latency)
                   /\ Len(new.predictions) = Len(new.confidences)
                   /\ \A i \in 1..(Len(new.predictions) - 1) :
                         new.predictions[i] = kept(old.predictions)[i]
                   /\ new.predictions[Len(new.predictions)].confidence = r.confidence
                   /\ new.predictions[Len(new.predictions)].latency = r.latency
                   /\ \A other \in MonitoredModels \ {r.model_name} :
                         Windows(monitor', other) = Windows(monitor, other)]_vars

\* a full window has evicted its oldest entries while the other model's window
\* is still short
C18_Witness ==
    \E a, b \in MonitoredModels :
        /\ a # b
        /\ NextSerial(a) - 1 > monitor.window_size
        /\ Len(Windows(monitor, a).confidences) = monitor.window_size
        /\ Len(Windows(monitor, b).confidences) = 1
        /\ Windows(monitor, a).confidences[1] # Windows(monitor, a).confidences[2]

\* the step in which process p returns from a call of the monitor method op
Called(p, op) ==
    /\ pc[p] = "idle" /\ pc'[p] = "done" /\ resp'[p].op = op

\* C17: check_drift never changes the drift-event list, flagged or not;
\* detect_drift appends exactly one event carrying the model name, the drift
\* type, the score, the severity and the timestamp when it flags drift, and
\* leaves the list unchanged when it does not.
C17_DriftEventList ==
    [][\A p \in Procs :
          /\ Called(p, "check_drift")
                => monitor'.drift_events = monitor.drift_events
          /\ Called(p, "detect_drift")
                => LET r == resp'[p]
                   IN  IF r.result.drift_detected
                       THEN /\ Len(monitor'.drift_events) = Len(monitor.drift_events) + 1
                            /\ SubSeq(monitor'.drift_events, 1, Len(monitor.drift_events))
                                  = monitor.drift_events
                            /\ LET e == monitor'.drift_events[Len(monitor'.drift_events)]
                               IN  /\ e.model_name = r.model_name
                                   /\ e.drift_type = r.drift_type
                                   /\ e.drift_score = r.result.drift_score
                                   /\ e.severity = IF e.drift_score > HighSeverityAbove
                                                   THEN "high" ELSE "medium"
                                   /\ e.timestamp = now
                       ELSE monitor'.drift_events = monitor.drift_events]_vars

\* a historical check has just appended the only event, after a quick check had
\* flagged drift (its counter is set) without appending one
C17_Witness ==
    \E p \in Procs :
        /\ pc[p] = "done" /\ resp[p].op = "detect_drift"
        /\ resp[p].result.drift_detected
        /\ Len(monitor.drift_events) = 1
        /\ \E labels \in DOMAIN prometheus.drift_events_total : labels[2] = "quick_check"

\* a historical check on enough data did not flag drift and appended nothing
C17_WitnessNoDrift ==
    \E p \in Procs :
        /\ pc[p] = "done" /\ resp[p].op = "detect_drift"
        /\ "drift_score" \in DOMAIN resp[p].result
        /\ ~resp[p].result.drift_detected
        /\ monitor.drift_events = <<>>

C19_WitnessAtMean ==
    \E p \in Procs :
        /\ pc[p] = "done" /\ resp[p].op = "check_drift"
        /\ DOMAIN resp[p].current_metrics = {"confidence"}
        /\ resp[p].current_metrics["confidence"]
              = monitor.baseline_stats[resp[p].model_name].confidence_mean
        /\ resp[p].result.drift_score = 0

\* C20: detect_drift answers drift_detected false with reason no_baseline for a
\* model without a baseline and with reason insufficient_data for a model with
\* a baseline and fewer than 30 recorded predictions; in both cases the answer
\* carries no score and neither the event list nor the metrics change.  With a
\* baseline and 30 predictions a score is computed.
C20_DetectDriftPreconditions ==
    [][\A p \in Procs :
          Called(p, "detect_drift")
          => LET r == resp'[p]
                 has_baseline == r.model_name \in DOMAIN monitor.baseline_stats
                 recorded == Len(Get(monitor.prediction_history, r.model_name, <<>>))
                 refused(reason) ==
                     /\ r.result = [drift_detected |-> FALSE, reason |-> reason]
                     /\ monitor' = monitor
                     /\ prometheus' = prometheus
             IN  /\ ~has_baseline => refused("no_baseline")
                 /\ (has_baseline /\ recorded < MinPredictions)
                       => refused("insufficient_data")
                 /\ (has_baseline /\ recorded >= MinPredictions)
                       => "drift_score" \in DOMAIN r.result]_vars

\* one prediction short of 30, with a baseline: insufficient_data
C20_Witness ==
    \E p \in Procs :
        /\ pc[p] = "done" /\ resp[p].op = "detect_drift"
        /\ resp[p].result = [drift_detected |-> FALSE, reason |-> "insufficient_data"]
        /\ resp[p].model_name \in DOMAIN monitor.baseline_stats
        /\ Len(Get(monitor.prediction_history, resp[p].model_name, <<>>))
              = MinPredictions - 1

\* 30 predictions and no baseline: no_baseline
C20_WitnessNoBaseline ==
    \E p \in Procs :
        /\ pc[p] = "done" /\ resp[p].op = "detect_drift"
        /\ resp[p].result = [drift_detected |-> FALSE, reason |-> "no_baseline"]
        /\ resp[p].model_name \notin DOMAIN monitor.baseline_stats
        /\ Len(Get(monitor.prediction_history, resp[p].model_name, <<>>))
              = MinPredictions

\* ---------------------------------------------------------------------------
\* C11: telemetry failures and detection results

\* C11: whatever a metrics, experiment-tracking or monitoring call raises, a
\* detection call returns (status 200) and its ingredients, confidence and
\* source are those computed by the merge before the telemetry step.
C11_TelemetryNeverAffectsDetection ==
    \A p \in Procs :
        Detected(p)
        => /\ resp[p].status = 200
           /\ resp[p].result.ingredients = resp[p].merged_results.ingredients
           /\ resp[p].result.confidence = resp[p].merged_results.confidence
           /\ resp[p].result.source = resp[p].merged_results.source

\* a detection that found ingredients with both tiers although a telemetry
\* block raised
C11_Witness ==
    \E p \in Procs :
        /\ Detected(p)
        /\ resp[p].status = 200
        /\ resp[p].telemetry_raised
        /\ resp[p].result.ingredients # <<>>
        /\ resp[p].result.source = "hybrid"

\* a detection whose telemetry ran through and flagged drift
C11_WitnessDrift ==
    \E p \in Procs :
        /\ Detected(p)
        /\ ~resp[p].telemetry_raised
        /\ "drift_detected" \in DOMAIN resp[p].result
        /\ PredictionsSoFar > 0

-----------------------------------------------------------------------------
(* services/mlflow_service.py: the experiment-tracking client *)
(* Its methods are synchronous.  Each takes the manager m and the server s  *)
(* and returns both, with the number of connection attempts it made.        *)

MaxLogged == 3

ConfiguredExperiment == "flavourcraft"
DefaultExperiment == "Default"

\* MLflowManager._initialize_mlflow (lines 47-84): one attempt unless one was
\* made already; get or create the experiment, which fails without a server
_initialize_mlflow(m, s) ==
    IF m._connection_attempted
    THEN [m |-> m, s |-> s, attempts |-> 0]
    ELSE IF s.reachable
    THEN [m |-> [m EXCEPT !._connection_attempted = TRUE,
                          !.experiment_id = ConfiguredExperiment,
                          !.initialized = TRUE],
          s |-> [s EXCEPT !.experiment = ConfiguredExperiment],
          attempts |-> 1]
    ELSE [m |-> [m EXCEPT !._connection_attempted = TRUE], s |-> s, attempts |-> 1]

\* a variant that never forgets an earlier attempt
_ensure_initialized_once(m, s) == _initialize_mlflow(m, s)

\* MLflowManager._ensure_initialized (lines 86-91)
_ensure_initialized(m, s) ==
    IF ~m.initialized
    THEN _initialize_mlflow([m EXCEPT !._connection_attempted = FALSE], s)
    ELSE [m |-> m, s |-> s, attempts |-> 0]

\* the experiment the mlflow module logs to: the one set_experiment chose (line
\* 73), else the server's default experiment
ActiveExperiment(m) == IF m.initialized THEN m.experiment_id ELSE DefaultExperiment

\* a call of the mlflow module: the server accepts it, or the call raises
Send(s, m, call) ==
    IF s.reachable
    THEN [s EXCEPT !.received =
                 Append(@, [call |-> call, experiment |-> ActiveExperiment(m)])]
    ELSE s

PrimitiveMethods == {"log_params", "log_metrics", "log_artifact", "log_dict"}
StructuredMethods == {"log_ingredient_detection", "log_recipe_generation"}
LoggingMethods == PrimitiveMethods \cup StructuredMethods

\* log_params, log_metrics, log_artifact, log_dict (lines 115-177): the mlflow
\* call inside try/except, with no call of _ensure_initialized; sendable is
\* false for a metrics dict without numbers or an artifact path that does not
\* exist
LogPrimitive(m, s, method, sendable) ==
    [m |-> m,
     s |-> IF sendable \/ method \in {"log_params", "log_dict"}
           THEN Send(s, m, method) ELSE s,
     attempts |-> 0, raised |-> FALSE]

\* log_ingredient_detection, log_recipe_generation (lines 179-300): return when
\* _ensure_initialized fails, else one run with params, metrics, dict and tags
LogStructured(m, s, method) ==
    LET e == _ensure_initialized(m, s)
    IN  [m |-> e.m,
         s |-> IF e.m.initialized THEN Send(e.s, e.m, method) ELSE e.s,
         attempts |-> e.attempts, raised |-> FALSE]

\* one call of a logging method on mlflow_manager
LogCall(p, methods) ==
    \E method \in methods, sendable \in BOOLEAN :
        /\ pc[p] = "idle"
        /\ Len(tracking_server.received) < MaxLogged
        /\ method \in StructuredMethods => sendable
        /\ UNCHANGED <<users, recipes, nextOid, now, tokens, client, settings, monitor,
                       prometheus, db_manager>>
        /\ LET r == IF method \in PrimitiveMethods
                    THEN LogPrimitive(mlflow_manager, tracking_server, method, sendable)
                    ELSE LogStructured(mlflow_manager, tracking_server, method)
           IN  /\ mlflow_manager' = r.m
               /\ tracking_server' = r.s
               /\ Reply(p, [op |-> "mlflow", method |-> method, sendable |-> sendable,
                            attempts |-> r.attempts, raised |-> r.raised])

\* the tracking server starts or stops answering
SetReachable ==
    /\ tracking_server' = [tracking_server EXCEPT !.reachable = ~@]
    /\ UNCHANGED <<users, recipes, nextOid, now, tokens, client, settings, monitor,
                   prometheus, mlflow_manager, db_manager, pc, loc, resp>>

\* the module-level MLflowManager() (line 426), built with or without a server
InitTracking ==
    /\ users = {} /\ recipes = {} /\ nextOid = 1 /\ now = 0 /\ tokens = {}
    /\ client = [p \in Procs |-> None]
    /\ settings = DefaultSettings
    /\ monitor = ModelMonitor(DefaultWindowSize)
    /\ prometheus = PrometheusMetrics
    /\ \E reachable \in BOOLEAN :
          LET i == _initialize_mlflow(MLflowManager, TrackingServer(reachable))
          IN  mlflow_manager = i.m /\ tracking_server = i.s
    /\ db_manager = [client |-> [MotorClient EXCEPT !.connected = TRUE],
                     db |-> DatabaseHandle]
    /\ pc = [p \in Procs |-> "idle"]
    /\ loc = [p \in Procs |-> Idle]
    /\ resp = [p \in Procs |-> None]

NextTracking ==
    \/ LogCall(MonitorCaller, LoggingMethods)
    \/ SetReachable
    \/ Return(MonitorCaller)

SpecTracking == InitTracking /\ [][NextTracking]_vars

\* ---------------------------------------------------------------------------
\* C21: logging while the tracking server is unreachable

\* C21 as stated: a call of any of the six logging methods made while the
\* server is unreachable re-attempts initialization, raises nothing and sends
\* nothing; the first call made once the server is reachable connects (the
\* manager is initialized) and logs.
C21_EveryMethodRetries ==
    [][\A p \in Procs :
          Called(p, "mlflow")
          => LET r == resp'[p]
             IN  /\ ~tracking_server.reachable
                    => /\ r.attempts >= 1
                       /\ ~r.raised
                       /\ tracking_server'.received = tracking_server.received
                 /\ (tracking_server.reachable /\ ~mlflow_manager.initialized
                        /\ r.sendable)
                    => /\ mlflow_manager'.initialized
                       /\ Len(tracking_server'.received)
                              = Len(tracking_server.received) + 1]_vars

\* C21 as built: no method raises or sends while the server is unreachable;
\* the two structured helpers re-attempt initialization on each such call, and
\* the first one called with the server reachable connects and logs to the
\* configured experiment; the four primitive methods never attempt it, and
\* called on an unconnected manager with the server reachable they log to the
\* default experiment and leave the manager unconnected.
C21_OnlyHelpersRetry ==
    [][\A p \in Procs :
          Called(p, "mlflow")
          => LET r == resp'[p]
                 sent == SubSeq(tracking_server'.received,
                                Len(tracking_server.received) + 1,
                                Len(tracking_server'.received))
             IN  /\ ~r.raised
                 /\ ~tracking_server.reachable => sent = <<>>
                 /\ r.method \in StructuredMethods
                    => /\ ~mlflow_manager.initialized => r.attempts = 1
                       /\ tracking_server.reachable
                          => /\ mlflow_manager'.initialized
                             /\ sent = <<[call |-> r.method,
                                          experiment |-> ConfiguredExperiment]>>
                 /\ r.method \in PrimitiveMethods
                    => /\ r.attempts = 0
                       /\ mlflow_manager' = mlflow_manager
                       /\ (tracking_server.reachable /\ ~mlflow_manager.initialized
                              /\ r.sendable)
                          => sent = <<[call |-> r.method,
                                       experiment |-> DefaultExperiment]>>]_vars

\* the server came up after a failed start, and log_params logged without
\* connecting the manager
C21_Witness ==
    \E p \in Procs :
        /\ pc[p] = "done" /\ resp[p].op = "mlflow"
        /\ resp[p].method = "log_params"
        /\ tracking_server.reachable
        /\ ~mlflow_manager.initialized
        /\ tracking_server.received
              = <<[call |-> "log_params", experiment |-> DefaultExperiment]>>

\* a structured helper retried against a server that is still down
C21_WitnessRetry ==
    \E p \in Procs :
        /\ pc[p] = "done" /\ resp[p].op = "mlflow"
        /\ resp[p].method = "log_recipe_generation"
        /\ resp[p].attempts = 1
        /\ ~tracking_server.reachable
        /\ tracking_server.received = <<>>

-----------------------------------------------------------------------------
(* utils/validators.py: validate_ingredients on its own *)

MaxList == 5

IngredientNames == {"Tomato", "tomato", " Onion ", "", "onion", " "}

RECURSIVE ListsUpTo(_)
ListsUpTo(n) ==
    IF n = 0 THEN {<<>>}
    ELSE LET shorter == ListsUpTo(n - 1)
         IN  shorter \cup {Append(l, name) : l \in {x \in shorter : Len(x) = n - 1},
                                             name \in IngredientNames}

\* validate_ingredients(ingredients)
ValidateCall(p) ==
    /\ pc[p] = "validate"
    /\ UNCHANGED <<users, recipes, nextOid, now, tokens, client, settings, monitor, prometheus, services>>
    /\ Reply(p, [op |-> "validate", ingredients |-> loc[p].ingredients,
                 cleaned |-> validate_ingredients(loc[p].ingredients)])

\* validate_ingredients on the list the first call returned
ValidateAgain(p) ==
    /\ pc[p] = "done" /\ resp[p].op = "validate"
    /\ UNCHANGED <<users, recipes, nextOid, now, tokens, client, settings, monitor, prometheus, services>>
    /\ Reply(p, [op |-> "validate_again", first |-> resp[p].ingredients,
                 ingredients |-> resp[p].cleaned,
                 cleaned |-> validate_ingredients(resp[p].cleaned)])

InitValidate ==
    /\ users = {} /\ recipes = {} /\ nextOid = 1 /\ now = 0 /\ tokens = {}
    /\ client = [p \in Procs |-> None]
    /\ settings = DefaultSettings
    /\ monitor = ModelMonitor(DefaultWindowSize)
    /\ prometheus = PrometheusMetrics
    /\ ServicesStarted
    /\ resp = [p \in Procs |-> None]
    /\ \E ingredients \in ListsUpTo(MaxList) :
          /\ pc = [p \in Procs |-> IF p = "p1" THEN "validate" ELSE "idle"]
          /\ loc = [p \in Procs |-> IF p = "p1"
                                    THEN [t |-> "validate", ingredients |-> ingredients]
                                    ELSE Idle]

NextValidate ==
    \E p \in Procs :
        \/ ValidateCall(p)
        \/ ValidateAgain(p)
        \/ Return(p)

SpecValidate == InitValidate /\ [][NextValidate]_vars

\* ---------------------------------------------------------------------------
\* C22: validate_ingredients

TomatoOnionExample == <<"Tomato", "tomato", " Onion ", "", "onion">>

\* the positions of `ingredients` that validate_ingredients keeps: a non-empty
\* trimmed entry whose lower-cased form no earlier entry has
Kept(ingredients) ==
    {i \in 1..Len(ingredients) :
        /\ StripName(ingredients[i]) # ""
        /\ \A j \in 1..(i - 1) :
              LowerName(StripName(ingredients[j])) # LowerName(StripName(ingredients[i]))}

RECURSIVE InOrder(_, _)
InOrder(ingredients, positions) ==
    IF positions = {} THEN <<>>
    ELSE LET i == CHOOSE k \in positions : \A j \in positions : k <= j
         IN  <<StripName(ingredients[i])>> \o InOrder(ingredients, positions \ {i})

\* C22: the validated list is the trimmed first occurrences, in order, of the
\* non-empty entries, compared without regard to case; the example list gives
\* exactly <<"Tomato", "Onion">>; validating a validated list returns it
\* unchanged.
C22_ValidateIngredients ==
    \A p \in Procs :
        /\ (pc[p] = "done" /\ resp[p].op = "validate")
           => /\ resp[p].cleaned = InOrder(resp[p].ingredients, Kept(resp[p].ingredients))
              /\ resp[p].ingredients = TomatoOnionExample
                 => resp[p].cleaned = <<"Tomato", "Onion">>
        /\ (pc[p] = "done" /\ resp[p].op = "validate_again")
           => resp[p].cleaned = resp[p].ingredients

\* the example list has been validated twice
C22_Witness ==
    \E p \in Procs :
        /\ pc[p] = "done" /\ resp[p].op = "validate_again"
        /\ resp[p].ingredients = <<"Tomato", "Onion">>
        /\ resp[p].cleaned = <<"Tomato", "Onion">>
        /\ resp[p].first = TomatoOnionExample

-----------------------------------------------------------------------------
(* services/storage_service.py: DatabaseManager; main.py: GET /health *)

\* connect_to_database up to the ping it awaits (lines 21-35): without
\* MONGODB_URI it raises before any assignment, else client and db are
\* assigned before the ping
ConnectStart(p) ==
    \E uri_set \in BOOLEAN :
        /\ pc[p] = "idle"
        /\ UNCHANGED <<users, recipes, nextOid, now, tokens, client, settings, monitor,
                       prometheus, mlflow_manager, tracking_server>>
        /\ IF ~uri_set
           THEN /\ UNCHANGED db_manager
                /\ Reply(p, [op |-> "connect", raised |-> TRUE, reason |-> "MONGODB_URI"])
           ELSE /\ db_manager' = [client |-> MotorClient, db |-> DatabaseHandle]
                /\ Goto(p, "db_ping", [t |-> "connect"])

\* the ping has been answered or has failed (lines 35-43); create_indexes
\* catches its own errors; a failure is logged and raised again
PingReturn(p) ==
    \E answered \in BOOLEAN :
        /\ pc[p] = "db_ping"
        /\ UNCHANGED <<users, recipes, nextOid, now, tokens, client, settings, monitor,
                       prometheus, mlflow_manager, tracking_server>>
        /\ IF answered
           THEN /\ db_manager' = [db_manager EXCEPT !.client.connected = TRUE]
                /\ Reply(p, [op |-> "connect", raised |-> FALSE, reason |-> NoneStr])
           ELSE /\ UNCHANGED db_manager
                /\ Reply(p, [op |-> "connect", raised |-> TRUE, reason |-> "ping"])

\* a variant that looks at the connection instead of the handle
DatabaseMissing_unless_connected(m) == m.client = None \/ ~m.client.connected

\* the test of get_database (line 80)
DatabaseMissing(m) == m.db = None

\* DatabaseManager.get_database (lines 78-82)
GetDatabase(p) ==
    /\ pc[p] = "idle"
    /\ UNCHANGED <<users, recipes, nextOid, now, tokens, client, settings, monitor,
                   prometheus, services>>
    /\ IF DatabaseMissing(db_manager)
       THEN Reply(p, [op |-> "get_database", raised |-> TRUE,
                      detail |-> "Database not initialized. Call connect_to_database first.",
                      db |-> None])
       ELSE Reply(p, [op |-> "get_database", raised |-> FALSE, detail |-> NoneStr,
                      db |-> db_manager.db])

\* usage percentages are integers in tenths of a percent
DiskLimit == 900
MemoryLimit == 900

\* what psutil reports: a percentage, or an exception
UsageReadings == {250, 899, 900, 1000, -1}
PsutilRaised == -1

\* a variant that accepts the limit itself
BelowLimit_inclusive(percent, limit) == percent # PsutilRaised /\ percent <= limit

\* disk_usage.percent < 90, and False when psutil raises (lines 170-191)
BelowLimit(percent, limit) == percent # PsutilRaised /\ percent < limit

\* GET /health (main.py lines 156-231)
HealthCheck(p) ==
    \E disk \in UsageReadings, memory \in UsageReadings :
        /\ pc[p] = "idle"
        /\ UNCHANGED <<users, recipes, nextOid, now, tokens, client, settings, monitor,
                       prometheus, services>>
        /\ LET db_healthy == db_manager.db # None
               disk_healthy == BelowLimit(disk, DiskLimit)
               memory_healthy == BelowLimit(memory, MemoryLimit)
               overall_healthy == db_healthy /\ disk_healthy /\ memory_healthy
               response ==
                   [status |-> IF overall_healthy THEN "healthy" ELSE "degraded",
                    checks |->
                        [database |-> [status |-> IF db_healthy THEN "connected"
                                                  ELSE "disconnected",
                                       healthy |-> db_healthy],
                         disk |-> [healthy |-> disk_healthy, percent_used |-> disk],
                         memory |-> [healthy |-> memory_healthy,
                                     percent_used |-> memory]]]
           IN  Reply(p, [op |-> "health",
                         status_code |-> IF overall_healthy THEN 200 ELSE 503,
                         content |-> response,
                         db |-> db_manager.db, disk |-> disk, memory |-> memory])

\* the process before start-up: no connection attempted
InitDatabase ==
    /\ users = {} /\ recipes = {} /\ nextOid = 1 /\ now = 0 /\ tokens = {}
    /\ client = [p \in Procs |-> None]
    /\ settings = DefaultSettings
    /\ monitor = ModelMonitor(DefaultWindowSize)
    /\ prometheus = PrometheusMetrics
    /\ mlflow_manager = [MLflowManager EXCEPT !._connection_attempted = TRUE]
    /\ tracking_server = TrackingServer(FALSE)
    /\ db_manager = DatabaseManager
    /\ pc = [p \in Procs |-> "idle"]
    /\ loc = [p \in Procs |-> Idle]
    /\ resp = [p \in Procs |-> None]

NextDatabase ==
    \E p \in Procs :
        \/ ConnectStart(p)
        \/ PingReturn(p)
        \/ GetDatabase(p)
        \/ HealthCheck(p)
        \/ Return(p)

SpecDatabase == InitDatabase /\ [][NextDatabase]_vars

\* ---------------------------------------------------------------------------
\* C23: get_database before a connection is established

\* a connect has passed its ping
Established == db_manager.client # None /\ db_manager.client.connected

\* C23 as stated: get_database raises "Database not initialized" whenever no
\* connect has passed its ping, and returns the handle only after one has.
C23_RaisesUntilConnected ==
    [][\A p \in Procs :
          Called(p, "get_database") => (resp'[p].raised <=> ~Established)]_vars

\* C23 as built: get_database raises exactly while no connect has got past the
\* MONGODB_URI check; from the assignment of client and db on (before the
\* ping, and after a failed ping) it returns the handle.
C23_RaisesUntilAssigned ==
    [][\A p \in Procs :
          Called(p, "get_database")
          => /\ resp'[p].raised <=> db_manager.db = None
             /\ ~resp'[p].raised => resp'[p].db = DatabaseHandle
             /\ db_manager' = db_manager]_vars

\* a connect raised because its ping failed, and get_database then returned
\* the handle of the connection that was never established
C23_Witness ==
    \E p, q \in Procs :
        /\ pc[p] = "done" /\ resp[p].op = "connect"
        /\ resp[p].raised /\ resp[p].reason = "ping"
        /\ pc[q] = "done" /\ resp[q].op = "get_database"
        /\ ~resp[q].raised /\ resp[q].db = DatabaseHandle
        /\ ~Established

\* ---------------------------------------------------------------------------
\* C24: GET /health

C24_WitnessHealthy ==
    \E p \in Procs :
        /\ pc[p] = "done" /\ resp[p].op = "health"
        /\ resp[p].db # None /\ resp[p].disk = 899 /\ resp[p].memory = 899
        /\ resp[p].content.status = "healthy"
        /\ resp[p].status_code = 200

\* no database handle: degraded, 503, database check unhealthy
C24_WitnessNoDatabase ==
    \E p \in Procs :
        /\ pc[p] = "done" /\ resp[p].op = "health"
        /\ resp[p].db = None /\ resp[p].disk = 250 /\ resp[p].memory = 250
        /\ resp[p].status_code = 503
        /\ ~resp[p].content.checks.database.healthy

\* ---------------------------------------------------------------------------
\* C25: generation racing with account deletion

OwnerExists(user_id) == \E u \in users : Str(u._id) = user_id

\* a generation or a deletion for this user is still running
Running(user_id) ==
    \E p \in Procs :
        \/ pc[p] \in {"gen_ai", "gen_insert"} /\ loc[p].user_id = user_id
        \/ pc[p] \in {"del_recipes", "del_user"} /\ loc[p].current_user.id = user_id

TrackedRun(p) ==
    /\ pc[p] \in {"det_local", "det_vision"} /\ pc'[p] = "done"
    /\ resp'[p].op = "detect" /\ resp'[p].status = 200
    /\ settings.PROMETHEUS_ENABLED /\ settings.ENABLE_DRIFT_DETECTION
    /\ ~resp'[p].telemetry_raised

PipelinePredictions == Len(Get(monitor.prediction_history, PipelineModel, <<>>))

\* C26 as stated: every pipeline run that reaches the merge records one
\* prediction under ingredient_detection_pipeline.
C26_PipelineRecordsPrediction ==
    [][\A p \in Procs : TrackedRun(p) => PipelinePredictions' = PipelinePredictions + 1]_vars

\* C26 as built: no pipeline run records a prediction under
\* ingredient_detection_pipeline (a run only makes the quick check, which sets
\* the default baseline), so a historical drift check for that name answers
\* insufficient_data, or no_baseline before the first tracked run.
C26_PipelineNeverRecorded ==
    /\ PipelinePredictions = 0
    /\ \A p \in Procs :
          (pc[p] = "done" /\ resp[p].op = "detect_drift")
          => /\ resp[p].result.drift_detected = FALSE
             /\ resp[p].result.reason \in {"insufficient_data", "no_baseline"}

\* after a tracked pipeline run (its quick check has set the baseline) the
\* historical check still answers insufficient_data
C26_Witness ==
    \E p \in Procs :
        /\ pc[p] = "done" /\ resp[p].op = "detect_drift"
        /\ resp[p].model_name = PipelineModel
        /\ resp[p].result.reason = "insufficient_data"
        /\ PipelineModel \in DOMAIN monitor.baseline_stats
        /\ PredictionsSoFar > 0

-----------------------------------------------------------------------------
(* routes/mlops_monitoring.py: baselines; routes/recipes.py: history *)

BaselineModels == {GeneratorModel, "openai_vision"}

\* POST /mlops/models/{name}/baseline: the four query parameters, at their
\* defaults and at values of the caller's
RouteBaselines ==
    {("confidence_mean" :> 70) @@ ("confidence_std" :> 15)
        @@ ("latency_mean" :> 200) @@ ("latency_std" :> 50),
     ("confidence_mean" :> 90) @@ ("confidence_std" :> 5)
        @@ ("latency_mean" :> 100) @@ ("latency_std" :> 20)}

\* models_config of POST /mlops/initialize (lines 376-401)
models_config ==
    ("clip_ingredient_detector" :>
        (("confidence_mean" :> 65) @@ ("confidence_std" :> 15)
            @@ ("latency_mean" :> 180) @@ ("latency_std" :> 50)))
    @@ ("openai_vision" :>
        (("confidence_mean" :> 85) @@ ("confidence_std" :> 10)
            @@ ("latency_mean" :> 250) @@ ("latency_std" :> 80)))
    @@ (GeneratorModel :>
        (("confidence_mean" :> 85) @@ ("confidence_std" :> 10)
            @@ ("latency_mean" :> 300) @@ ("latency_std" :> 100)))
    @@ (PipelineModel :>
        (("confidence_mean" :> 70) @@ ("confidence_std" :> 15)
            @@ ("latency_mean" :> 250) @@ ("latency_std" :> 80)))

\* for model_name, config in models_config.items(): set_baseline(...)
RECURSIVE SetBaselines(_, _)
SetBaselines(w, names) ==
    IF names = {} THEN w
    ELSE LET model_name == CHOOSE n \in names : TRUE
         IN  SetBaselines(set_baseline(w, model_name, models_config[model_name]),
                          names \ {model_name})

\* initialize_mlops (lines 363-421)
InitializeMlops(p) ==
    /\ pc[p] = "idle"
    /\ UNCHANGED <<users, recipes, nextOid, now, tokens, client, settings, services>>
    /\ LET w == SetBaselines(World, DOMAIN models_config)
       IN  /\ monitor' = w.monitor
           /\ prometheus' =
                [w.prometheus EXCEPT
                    !.system_info = [version |-> "1.0.0",
                                     environment |-> "production",
                                     mlflow_experiment |-> ConfiguredExperiment],
                    !.system_health = 1]
           /\ Reply(p, [op |-> "initialize", status |-> "success",
                        models_configured |-> DOMAIN models_config,
                        timestamp |-> now])

\* datetime.isoformat()
IsoFormat(time) == [t |-> "iso", v |-> time]

\* ModelMonitor.get_all_baselines (lines 520-528)
get_all_baselines(m) ==
    [model \in DOMAIN m.baseline_stats |->
        [m.baseline_stats[model] EXCEPT !.timestamp = IsoFormat(@)]]

\* GET /mlops/baselines (lines 189-202)
GetAllBaselines(p) ==
    /\ pc[p] = "idle"
    /\ UNCHANGED <<users, recipes, nextOid, now, tokens, client, settings, monitor, prometheus, services>>
    /\ Reply(p, [op |-> "baselines", status |-> "success",
                 baselines |-> get_all_baselines(monitor)])

\* GET /recipes/history (routes/recipes.py lines 179-210) with
\* get_user_recipe_history (recipe_service.py lines 471-530): the route builds
\* the service, then counts and lists the user's recipes; the users lookup by
\* the string id finds no document, so the username is "Anonymous"
RecipeHistory(p, presented) ==
    \E token \in presented :
        /\ pc[p] = "idle"
        /\ UNCHANGED <<users, recipes, nextOid, now, tokens, client, settings, prometheus, services>>
        /\ LET current_user == get_current_user(token)
           IN  IF current_user = None
               THEN /\ UNCHANGED monitor
                    /\ Reply(p, Unauthorized("history", token))
               ELSE /\ monitor' = RecipeGenerationService(World).monitor
                    /\ Reply(p, [op |-> "history", status |-> 200,
                                 user_id |-> current_user.id,
                                 username |-> "Anonymous",
                                 total |-> Cardinality(OwnedBy(current_user.id)),
                                 recipes |-> {Str(r._id) : r \in OwnedBy(current_user.id)}])

NextBaseline ==
    \/ \E p \in Procs : SetBaseline(p, BaselineModels, RouteBaselines)
    \/ \E p \in Procs : RecipeHistory(p, Presentable)
    \/ \E p \in Procs : Return(p)
    \/ InitializeMlops(MonitorCaller)
    \/ GetAllBaselines(MonitorCaller)
    \/ CheckDrift(MonitorCaller, BaselineModels, {("confidence" :> 70)}, {"ok"})
    \/ DetectDrift(MonitorCaller, BaselineModels, {"confidence"}, {"ok"})
    \/ Tick

SpecBaseline == InitRecipe({TRUE}) /\ [][NextBaseline]_vars

\* ---------------------------------------------------------------------------
\* C27: who changes a baseline

\* a set-baseline call for the model has answered, the answer has not been
\* taken yet, and the model's baseline holds the values that call gave
HeldExplicit(model) ==
    /\ model \in DOMAIN monitor.baseline_stats
    /\ \E q \in Procs :
          /\ pc[q] = "done" /\ resp[q].op = "set_baseline"
          /\ resp[q].model_name = model
          /\ \A k \in DOMAIN resp[q].baseline_data :
                monitor.baseline_stats[model][k] = resp[q].baseline_data[k]

\* the step is a set-baseline call for the model or an initialize call
ExplicitStep(model) ==
    \E p \in Procs :
        \/ Called(p, "set_baseline") /\ resp'[p].model_name = model
        \/ Called(p, "initialize") /\ model \in resp'[p].models_configured

BaselineKept(model) ==
    /\ model \in DOMAIN monitor'.baseline_stats
    /\ monitor'.baseline_stats[model] = monitor.baseline_stats[model]

\* C27 as stated: a baseline set through the set-baseline route stays as set
\* until the next set-baseline or initialize call for that model; no other
\* request changes it.
C27_BaselineStaysUntilSet ==
    [][\A model \in BaselineModels :
          HeldExplicit(model) => BaselineKept(model) \/ ExplicitStep(model)]_vars

\* C27 as built: besides the explicit calls, a recipe-route request changes the
\* baseline of openai_recipe_generator, to the constructor's values; every
\* other model's baseline stays as set, and GET /mlops/baselines returns the
\* stored baselines.
C27_OnlyRecipeRoutesReset ==
    [][/\ \A model \in BaselineModels :
            HeldExplicit(model)
            => \/ BaselineKept(model)
               \/ ExplicitStep(model)
               \/ /\ model = GeneratorModel
                  /\ \E p \in Procs : Called(p, "history") /\ resp'[p].status = 200
                  /\ monitor' = RecipeGenerationService(World).monitor
       /\ \A p \in Procs :
            Called(p, "baselines")
            => resp'[p].baselines = get_all_baselines(monitor)]_vars

\* a baseline of the caller's was set for openai_recipe_generator, a history
\* request followed, and GET /mlops/baselines would now return the
\* constructor's values
C27_Witness ==
    \E p \in Procs, q \in Procs :
        /\ pc[q] = "done" /\ resp[q].op = "set_baseline"
        /\ resp[q].model_name = GeneratorModel
        /\ resp[q].baseline_data["confidence_mean"] = 90
        /\ pc[p] = "done" /\ resp[p].op = "history" /\ resp[p].status = 200
        /\ get_all_baselines(monitor)[GeneratorModel].confidence_mean = 85

\* ---------------------------------------------------------------------------
\* C28: the baseline after a first drift check

\* the baseline set_baseline(model_name, {}) stores
DefaultBaseline ==
    [confidence_mean |-> BASELINE_CONFIDENCE_MEAN,
     confidence_std |-> BASELINE_CONFIDENCE_STD,
     latency_mean |-> BASELINE_LATENCY_MEAN,
     latency_std |-> BASELINE_LATENCY_STD,
     timestamp |-> now]

\* a drift check of either kind answers for a model that had no baseline
FirstCheck(p) ==
    /\ \/ Called(p, "check_drift")
       \/ Called(p, "detect_drift")
    /\ resp'[p].model_name \notin DOMAIN monitor.baseline_stats

\* C28 as stated: the first drift check of either kind on a model without a
\* baseline leaves the model with the default baseline.
C28_FirstCheckSetsDefaults ==
    [][\A p \in Procs :
          FirstCheck(p)
          => /\ resp'[p].model_name \in DOMAIN monitor'.baseline_stats
             /\ monitor'.baseline_stats[resp'[p].model_name] = DefaultBaseline]_vars

\* C28 as built: the quick check_drift stores the default baseline for such a
\* model; the historical detect_drift answers no_baseline and stores nothing.
C28_OnlyQuickCheckSetsDefaults ==
    [][\A p \in Procs :
          FirstCheck(p)
          => IF resp'[p].op = "check_drift"
             THEN /\ resp'[p].model_name \in DOMAIN monitor'.baseline_stats
                  /\ monitor'.baseline_stats[resp'[p].model_name] = DefaultBaseline
             ELSE /\ monitor' = monitor
                  /\ resp'[p].result = [drift_detected |-> FALSE,
                                        reason |-> "no_baseline"]]_vars

\* the historical check has answered for a model that still has no baseline,
\* while the other model holds the default baseline
C28_Witness ==
    \E p \in Procs :
        /\ pc[p] = "done" /\ resp[p].op = "detect_drift"
        /\ resp[p].result.reason = "no_baseline"
        /\ resp[p].model_name \notin DOMAIN monitor.baseline_stats
        /\ SeededModel \in DOMAIN monitor.baseline_stats
        /\ monitor.baseline_stats[SeededModel] = DefaultBaseline

-----------------------------------------------------------------------------
(* services/cuisine_service.py, routes/cuisine.py: list all cuisines *)

CuisineTypes == {NoneStr, "Italian", "italian", "thai"}

CuisineRequests == {[PlainRequest EXCEPT !.cuisine_type = c] : c \in CuisineTypes}

\* {"$match": query}, {"$match": {"cuisine_type": {"$exists": True, "$ne": None}}}
MatchCuisine(user_id) ==
    {r \in recipes : /\ user_id = None \/ r.user_id = user_id
                     /\ r.cuisine_type # NoneStr}

\* {"$group": {"_id": "$cuisine_type", "count": {"$sum": 1}}}
GroupByCuisine(docs) ==
    {[_id |-> c, count |-> Cardinality({r \in docs : r.cuisine_type = c})]
        : c \in {r.cuisine_type : r \in docs}}

\* {"$sort": {"count": -1}}: the groups in an order of descending count
SortedByCount(groups) ==
    {results \in [1..Cardinality(groups) -> groups] :
        /\ \A g \in groups : \E i \in DOMAIN results : results[i] = g
        /\ \A i \in DOMAIN results : \A j \in DOMAIN results :
              i < j => results[i].count >= results[j].count}

\* the loop over the results (lines 72-89)
FormatCuisines(results) ==
    [i \in DOMAIN results |->
        [cuisine_type |-> LowerName(results[i]._id),
         recipe_count |-> results[i].count]]

\* GET /cuisines/ (routes/cuisine.py 22-68) with get_all_cuisines (41-102)
GetAllCuisines(p, presented, flags) ==
    \E token \in presented, user_only \in flags :
        /\ pc[p] = "idle"
        /\ UNCHANGED <<users, recipes, nextOid, now, tokens, client, settings, monitor, prometheus, services>>
        /\ LET current_user == get_current_user(token)
               user_id == IF user_only THEN current_user.id ELSE None
           IN  IF current_user = None
               THEN Reply(p, Unauthorized("cuisines", token))
               ELSE \E results \in SortedByCount(GroupByCuisine(MatchCuisine(user_id))) :
                      LET cuisines == FormatCuisines(results)
                      IN  Reply(p, [op |-> "cuisines", status |-> 200,
                                    user_id |-> user_id,
                                    cuisines |-> cuisines,
                                    total_cuisines |-> Len(cuisines),
                                    total_recipes |->
                                        SumSeq([i \in DOMAIN results |-> results[i].count])])

NextCuisine ==
    \E p \in Procs :
        \/ GenerateCall(p, CuisineRequests)
        \/ GenerateInsert(p, {FALSE})
        \/ GetAllCuisines(p, tokens, BOOLEAN)
        \/ Return(p)

SpecCuisine == InitRecipe({FALSE}) /\ [][NextCuisine]_vars

\* ---------------------------------------------------------------------------
\* C29: one entry per lower-cased cuisine type

\* the matching recipes whose lower-cased cuisine type is the given one
OfCuisine(user_id, cuisine_type) ==
    {r \in MatchCuisine(user_id) : LowerName(r.cuisine_type) = cuisine_type}

Listed(p) == Called(p, "cuisines") /\ resp'[p].status = 200

\* C29 as stated: the list has at most one entry per lower-cased cuisine type,
\* and an entry's recipe_count is the number of matching recipes whose
\* lower-cased cuisine type is the entry's.
C29_OneEntryPerLowerCasedType ==
    [][\A p \in Procs :
          Listed(p)
          => LET cuisines == resp'[p].cuisines
             IN  /\ \A i \in DOMAIN cuisines : \A j \in DOMAIN cuisines :
                       cuisines[i].cuisine_type = cuisines[j].cuisine_type => i = j
                 /\ \A i \in DOMAIN cuisines :
                       cuisines[i].recipe_count =
                          Cardinality(OfCuisine(resp'[p].user_id,
                                                cuisines[i].cuisine_type))]_vars

\* C29 as built: the list has one entry per stored spelling; the entries of
\* one lower-cased type together count the matching recipes of that type, the
\* counts descend, and the totals are the number of spellings and of matching
\* recipes.
C29_OneEntryPerStoredSpelling ==
    [][\A p \in Procs :
          Listed(p)
          => LET cuisines == resp'[p].cuisines
                 matching == MatchCuisine(resp'[p].user_id)
             IN  /\ Len(cuisines) = Cardinality({r.cuisine_type : r \in matching})
                 /\ resp'[p].total_cuisines = Len(cuisines)
                 /\ resp'[p].total_recipes = Cardinality(matching)
                 /\ \A i \in DOMAIN cuisines :
                       SumSeq([j \in DOMAIN cuisines |->
                                 IF cuisines[j].cuisine_type = cuisines[i].cuisine_type
                                 THEN cuisines[j].recipe_count ELSE 0])
                       = Cardinality(OfCuisine(resp'[p].user_id,
                                               cuisines[i].cuisine_type))
                 /\ \A i \in DOMAIN cuisines : \A j \in DOMAIN cuisines :
                       i < j => cuisines[i].recipe_count >= cuisines[j].recipe_count
                 /\ \A r \in matching : \E i \in DOMAIN cuisines :
                       cuisines[i].cuisine_type = LowerName(r.cuisine_type)]_vars

\* recipes stored as "Italian" and as "italian" are listed as two entries
C29_Witness ==
    \E p \in Procs :
        /\ pc[p] = "done" /\ resp[p].op = "cuisines" /\ resp[p].status = 200
        /\ Len(resp[p].cuisines) = 2
        /\ resp[p].cuisines[1] = [cuisine_type |-> "italian", recipe_count |-> 1]
        /\ resp[p].cuisines[2] = [cuisine_type |-> "italian", recipe_count |-> 1]

\* ---------------------------------------------------------------------------
\* C30: results without ingredients

DetectionReturned(p) ==
    pc[p] = "done" /\ resp[p].op = "detect" /\ resp[p].status = 200

\* C30 as stated: a result returned by detect_ingredients with an empty
\* ingredient list has confidence 0.0 and source "none".
C30_EmptyMeansNoSource ==
    \A p \in Procs :
        (DetectionReturned(p) /\ resp[p].result.ingredients = <<>>)
        => resp[p].result.confidence = 0 /\ resp[p].result.source = "none"

\* C30 as built: a result with an empty ingredient list carries the message for
\* no ingredients and either has confidence 0.0 and source "none", or comes from
\* a vision answer that parsed to no ingredient, with that tier's confidence
\* and source "openai"; a result from "local" or "hybrid" lists an ingredient.
C30_EmptyOnlyFromVision ==
    \A p \in Procs :
        (DetectionReturned(p) /\ resp[p].result.ingredients = <<>>)
        => /\ resp[p].result.total_unique = 0
           /\ resp[p].result.message \in {NoIngredientsMessage, NoModelsMessage}
           /\ \/ resp[p].result.confidence = 0 /\ resp[p].result.source = "none"
              \/ /\ resp[p].result.source = "openai"
                 /\ resp[p].result.confidence = VisionConfidence
                 /\ resp[p].openai_results =
                        [ingredients |-> <<>>, confidence |-> VisionConfidence]
                 /\ resp[p].local_results.confidence = 0

\* the vision tier answered with text that holds no ingredient
C30_Witness ==
    \E p \in Procs :
        /\ DetectionReturned(p)
        /\ resp[p].result.ingredients = <<>>
        /\ resp[p].result.source = "openai"
        /\ resp[p].result.confidence = VisionConfidence

====
